---- MODULE Spec2Model ----
(***************************************************************************)
(* Connection manager of the MCP tool servers (McpManager, mcp_manager.ts). *)
(*                                                                         *)
(* The manager runs on a single-threaded event loop.  Every action below   *)
(* is one synchronous segment of the code: the part of a method that runs  *)
(* between two suspension points (await), or the settling of a promise the *)
(* method awaits.                                                          *)
(*                                                                         *)
(*   getClient(serverId)      GetClient       (up to `await initPromise`)  *)
(*   initializeClient         started inside GetClient, suspended at the   *)
(*                            db query; DbResolve is the rest of it up to  *)
(*                            `await Promise.race(...)`                    *)
(*   createMCPClient promise  FactoryResolve / FactoryReject               *)
(*   setTimeout callback      TimerFire                                    *)
(*   getClient continuation   OwnerResume     (clients.set, finally)       *)
(*   `return initializing`    JoinerResume    (the joined promise settles) *)
(*   dispose / disposeAll     Dispose / DisposeAll                         *)
(*   late setTimeout callback TimerFireLate   (RaceSpec)                   *)
(*   mcp:list-tools catch     ListToolsError  (EvictionSpec)               *)
(*                                                                         *)
(* A client is identified by the number of the initialization attempt that *)
(* created it.                                                             *)
(***************************************************************************)
EXTENDS Integers, Sequences, FiniteSets, TLC

\* Bounds of the model.
MaxServers == 2
MaxCalls == 2

ServerIds == 1..MaxServers

VARIABLES
    clients,              \* McpManager.clients: serverId -> client
    initializingClients,  \* McpManager.initializingClients: serverId -> attempt
    attempts,             \* every initializeClient invocation, in start order
    calls,                \* every getClient invocation, in call order
    closed,               \* clients on which close() has been called
    lastOp,               \* history: the dispose / disposeAll call that was the
                          \* last step (threw: a close() it made threw), if any
    resolution,           \* one getRegularModelClient call (get_model_client.ts)
    bridge,               \* one call of a CLI fetch function (*_cli_provider.ts)
    locator,              \* one detectGeminiCli / detectCodexCli call
    runner                \* one spawned process and its result promise

\* The variables of the connection manager, and those of the other components.
managerVars == <<clients, initializingClients, attempts, calls, closed, lastOp>>
outside == <<resolution, bridge, locator, runner>>
vars == <<clients, initializingClients, attempts, calls, closed, lastOp,
          resolution, bridge, locator, runner>>

\* A component that is not running.
Idle == [pc |-> "idle"]

----------------------------------------------------------------------------
\* Map helpers (JavaScript Map: get / set / delete).

MapHas(m, k) == k \in DOMAIN m

MapSet(m, k, v) == [x \in (DOMAIN m) \cup {k} |-> IF x = k THEN v ELSE m[x]]

MapDelete(m, k) == [x \in (DOMAIN m) \ {k} |-> m[x]]

EmptyMap == [x \in {} |-> 0]

----------------------------------------------------------------------------
\* Error messages thrown by the manager and by the client factory.

ErrNotFound == "MCP server not found"
ErrCommand == "MCP server command is required"
ErrUrl == "HTTP MCP requires url"
ErrTransport == "Unsupported MCP transport"
ErrTimeout == "MCP client initialization timeout"
ErrFactory == "createMCPClient rejected"

\* What the db query of initializeClient can return for a server id: no row,
\* or a row with a transport kind and a command / url that is set or not.
Row(found, transport, command, url) ==
    [found |-> found, transport |-> transport, command |-> command, url |-> url]

\* The rows drawn by the specification: no row, a complete stdio row and a
\* complete http row.
ServerRows ==
    { Row(FALSE, "stdio", FALSE, FALSE),
      Row(TRUE, "stdio", TRUE, FALSE),
      Row(TRUE, "http", FALSE, TRUE) }

\* The rows the checks of initializeClient refuse: a stdio row without a
\* command, an http row without a url and a row of another transport kind.
IncompleteRows ==
    { Row(TRUE, "stdio", FALSE, FALSE),
      Row(TRUE, "http", FALSE, FALSE),
      Row(TRUE, "sse", FALSE, TRUE) }

\* Mutant: the stdio and http branches without their checks of command and url.
ConfigCheck_NoFieldChecks(s) ==
    IF ~s.found THEN [ok |-> FALSE, transport |-> "none", error |-> ErrNotFound]
    ELSE IF s.transport = "stdio"
    THEN [ok |-> TRUE, transport |-> "stdio", error |-> "none"]
    ELSE IF s.transport = "http"
    THEN [ok |-> TRUE, transport |-> "http", error |-> "none"]
    ELSE [ok |-> FALSE, transport |-> "none", error |-> ErrTransport]

\* The configuration checks of initializeClient: the transport kind that is
\* constructed, or the error thrown before any transport exists.
ConfigCheck(s) ==
    IF ~s.found THEN [ok |-> FALSE, transport |-> "none", error |-> ErrNotFound]
    ELSE IF s.transport = "stdio" THEN
        IF ~s.command
        THEN [ok |-> FALSE, transport |-> "none", error |-> ErrCommand]
        ELSE [ok |-> TRUE, transport |-> "stdio", error |-> "none"]
    ELSE IF s.transport = "http" THEN
        IF ~s.url
        THEN [ok |-> FALSE, transport |-> "none", error |-> ErrUrl]
        ELSE [ok |-> TRUE, transport |-> "http", error |-> "none"]
    ELSE [ok |-> FALSE, transport |-> "none", error |-> ErrTransport]

----------------------------------------------------------------------------
\* Attempts and calls.

AttemptIds == 1..Len(attempts)
CallIds == 1..Len(calls)

\* The attempt's owner has not yet run its continuation (clients.set/finally).
Live(a) == calls[attempts[a].owner].pc = "await"

Unsettled(a) == attempts[a].stage # "settled"

NewAttempt(serverId, owner) ==
    [serverId |-> serverId,
     owner |-> owner,          \* the getClient call that started it
     stage |-> "db",           \* "db" -> "racing" -> "settled"
     factory |-> "none",       \* createMCPClient: none/pending/resolved/rejected
     timer |-> "none",         \* setTimeout: none/armed/fired
     outcome |-> "pending",    \* initPromise: pending/client/error
     error |-> "none",
     \* history, kept while the attempt is live: dispose(serverId) ran while
     \* it was live, or it started while another attempt for the server was
     interfered |-> \E b \in AttemptIds :
                       attempts[b].serverId = serverId /\ Live(b)]


\* lastOp when the last step was no dispose and no disposeAll.
NoDisposal == [op |-> "other", arg |-> 0, threw |-> FALSE]

ManagerInit ==
    /\ clients = EmptyMap
    /\ initializingClients = EmptyMap
    /\ attempts = <<>>
    /\ calls = <<>>
    /\ closed = {}
    /\ lastOp = NoDisposal

Init ==
    /\ ManagerInit
    /\ resolution = Idle
    /\ bridge = Idle
    /\ locator = Idle
    /\ runner = Idle

----------------------------------------------------------------------------
\* getClient(serverId), lines 27-45: the synchronous part of the call.

\* lines 29-33: returns the existing client.
ReturnExisting(serverId) ==
    /\ calls' = Append(calls,
           [serverId |-> serverId, role |-> "existing", attempt |-> 0,
            pc |-> "done", result |-> "client",
            client |-> clients[serverId], error |-> "none"])
    /\ UNCHANGED <<initializingClients, attempts>>

\* lines 36-40: returns the promise of the initialization in progress.
JoinInitializing(serverId) ==
    /\ calls' = Append(calls,
           [serverId |-> serverId, role |-> "joiner",
            attempt |-> initializingClients[serverId],
            pc |-> "await", result |-> "none", client |-> 0, error |-> "none"])
    /\ UNCHANGED <<initializingClients, attempts>>

\* lines 43-48: starts initializeClient (it suspends at the db query),
\* registers its promise and awaits it.
StartInitialization(serverId) ==
    /\ attempts' = Append(attempts, NewAttempt(serverId, Len(calls) + 1))
    /\ initializingClients' =
           MapSet(initializingClients, serverId, Len(attempts) + 1)
    /\ calls' = Append(calls,
           [serverId |-> serverId, role |-> "owner",
            attempt |-> Len(attempts) + 1,
            pc |-> "await", result |-> "none", client |-> 0, error |-> "none"])

\* Mutant: getClient without the initializingClients lookup.
GetClient_NoDedup(serverId) ==
    /\ Len(calls) < MaxCalls
    /\ lastOp' = NoDisposal
    /\ UNCHANGED <<clients, closed>>
    /\ IF MapHas(clients, serverId)
       THEN ReturnExisting(serverId)
       ELSE StartInitialization(serverId)
    /\ UNCHANGED outside

\* Mutant: getClient without the clients lookup.
GetClient_NoCache(serverId) ==
    /\ Len(calls) < MaxCalls
    /\ lastOp' = NoDisposal
    /\ UNCHANGED <<clients, closed>>
    /\ IF MapHas(initializingClients, serverId)
       THEN JoinInitializing(serverId)
       ELSE StartInitialization(serverId)
    /\ UNCHANGED outside

GetClient(serverId) ==
    /\ Len(calls) < MaxCalls
    /\ lastOp' = NoDisposal
    /\ UNCHANGED <<clients, closed>>
    /\ IF MapHas(clients, serverId) THEN ReturnExisting(serverId)
       ELSE IF MapHas(initializingClients, serverId)
       THEN JoinInitializing(serverId)
       ELSE StartInitialization(serverId)
    /\ UNCHANGED outside

\* initializeClient, lines 57-104: the db query returns row s; the row is
\* checked, the transport constructed, createMCPClient called and the timer
\* armed; or the attempt rejects with a configuration error.
DbResolve(a, s) ==
    /\ a \in AttemptIds
    /\ attempts[a].stage = "db"
    /\ LET r == ConfigCheck(s) IN
       attempts' = [attempts EXCEPT ![a] =
           IF r.ok
           THEN [@ EXCEPT !.stage = "racing", !.factory = "pending",
                          !.timer = "armed"]
           ELSE [@ EXCEPT !.stage = "settled", !.outcome = "error",
                          !.error = r.error]]
    /\ lastOp' = NoDisposal
    /\ UNCHANGED <<clients, initializingClients, calls, closed>>
    /\ UNCHANGED outside

\* Mutant: a createMCPClient that resolves late still decides the attempt.
FactoryResolve_LateWins(a) ==
    /\ a \in AttemptIds
    /\ attempts[a].factory = "pending"
    /\ attempts' = [attempts EXCEPT ![a] =
           [@ EXCEPT !.factory = "resolved", !.stage = "settled",
                     !.outcome = "client", !.error = "none"]]
    /\ lastOp' = NoDisposal
    /\ UNCHANGED <<clients, initializingClients, calls, closed>>
    /\ UNCHANGED outside

\* Promise.race, lines 106-113: createMCPClient resolves.  It decides the
\* attempt only if the race is still open.
FactoryResolve(a) ==
    /\ a \in AttemptIds
    /\ attempts[a].factory = "pending"
    /\ attempts' = [attempts EXCEPT ![a] =
           IF @.stage = "racing"
           THEN [@ EXCEPT !.factory = "resolved", !.stage = "settled",
                          !.outcome = "client"]
           ELSE [@ EXCEPT !.factory = "resolved"]]
    /\ lastOp' = NoDisposal
    /\ UNCHANGED <<clients, initializingClients, calls, closed>>
    /\ UNCHANGED outside

\* createMCPClient rejects while the race is open.  (A rejection after the
\* race is decided changes nothing and is not a step of the model.)
FactoryReject(a) ==
    /\ a \in AttemptIds
    /\ attempts[a].factory = "pending"
    /\ attempts[a].stage = "racing"
    /\ attempts' = [attempts EXCEPT ![a] =
           [@ EXCEPT !.factory = "rejected", !.stage = "settled",
                     !.outcome = "error", !.error = ErrFactory]]
    /\ lastOp' = NoDisposal
    /\ UNCHANGED <<clients, initializingClients, calls, closed>>
    /\ UNCHANGED outside

\* Mutant: the timer callback does not reject the race.
TimerFire_NoReject(a) ==
    /\ a \in AttemptIds
    /\ attempts[a].timer = "armed"
    /\ attempts[a].stage = "racing"
    /\ attempts' = [attempts EXCEPT ![a].timer = "fired"]
    /\ lastOp' = NoDisposal
    /\ UNCHANGED <<clients, initializingClients, calls, closed>>
    /\ UNCHANGED outside

\* Mutant: dispose cancels the timer of the attempt it interferes with.
TimerFire_CancelledByDispose(a) ==
    /\ a \in AttemptIds
    /\ attempts[a].timer = "armed"
    /\ attempts[a].stage = "racing"
    /\ ~attempts[a].interfered
    /\ attempts' = [attempts EXCEPT ![a] =
           [@ EXCEPT !.timer = "fired", !.stage = "settled",
                     !.outcome = "error", !.error = ErrTimeout]]
    /\ lastOp' = NoDisposal
    /\ UNCHANGED <<clients, initializingClients, calls, closed>>
    /\ UNCHANGED outside

\* The setTimeout callback of lines 100-104 runs while the race is open and
\* rejects it.  (The timer is never cleared; its callback after the race is
\* decided rejects a settled promise, changes nothing and is not a step of
\* the model.)
TimerFire(a) ==
    /\ a \in AttemptIds
    /\ attempts[a].timer = "armed"
    /\ attempts[a].stage = "racing"
    /\ attempts' = [attempts EXCEPT ![a] =
           [@ EXCEPT !.timer = "fired", !.stage = "settled",
                     !.outcome = "error", !.error = ErrTimeout]]
    /\ lastOp' = NoDisposal
    /\ UNCHANGED <<clients, initializingClients, calls, closed>>
    /\ UNCHANGED outside

\* The same callback runs after the race is decided: reject() on the settled
\* timeoutPromise has no effect.  A step of RaceSpec only.
TimerFireLate(a) ==
    /\ a \in AttemptIds
    /\ attempts[a].timer = "armed"
    /\ attempts[a].stage = "settled"
    /\ attempts' = [attempts EXCEPT ![a].timer = "fired"]
    /\ lastOp' = NoDisposal
    /\ UNCHANGED <<clients, initializingClients, calls, closed>>
    /\ UNCHANGED outside

\* getClient, lines 47-53: the owner's continuation after `await initPromise`.
OwnerResume(c) ==
    /\ c \in CallIds
    /\ calls[c].role = "owner"
    /\ calls[c].pc = "await"
    /\ LET a == calls[c].attempt
           id == calls[c].serverId IN
       /\ attempts[a].stage = "settled"
       /\ IF attempts[a].outcome = "client"
          THEN /\ clients' = MapSet(clients, id, a)
               /\ calls' = [calls EXCEPT ![c] =
                      [@ EXCEPT !.pc = "done", !.result = "client", !.client = a]]
          ELSE /\ clients' = clients
               /\ calls' = [calls EXCEPT ![c] =
                      [@ EXCEPT !.pc = "done", !.result = "error",
                                !.error = attempts[a].error]]
       /\ initializingClients' = MapDelete(initializingClients, id)
    /\ attempts' = [attempts EXCEPT ![calls[c].attempt].interfered = FALSE]
    /\ lastOp' = NoDisposal
    /\ UNCHANGED closed
    /\ UNCHANGED outside

\* Mutant: the joiner reads the registry after the wait, not the promise.
JoinerResume_ReadsRegistry(c) ==
    /\ c \in CallIds
    /\ calls[c].role = "joiner"
    /\ calls[c].pc = "await"
    /\ attempts[calls[c].attempt].stage = "settled"
    /\ ~Live(calls[c].attempt)
    /\ calls' = [calls EXCEPT ![c] =
           [@ EXCEPT !.pc = "done", !.result = "client",
                     !.client = IF MapHas(clients, calls[c].serverId)
                                THEN clients[calls[c].serverId] ELSE 0]]
    /\ lastOp' = NoDisposal
    /\ UNCHANGED <<clients, initializingClients, attempts, closed>>
    /\ UNCHANGED outside

\* getClient, line 39: the promise a joiner returned settles for its caller.
\* The owner's reaction was registered on the promise first, so it has run.
JoinerResume(c) ==
    /\ c \in CallIds
    /\ calls[c].role = "joiner"
    /\ calls[c].pc = "await"
    /\ LET a == calls[c].attempt IN
       /\ attempts[a].stage = "settled"
       /\ ~Live(a)
       /\ calls' = [calls EXCEPT ![c] =
              IF attempts[a].outcome = "client"
              THEN [@ EXCEPT !.pc = "done", !.result = "client", !.client = a]
              ELSE [@ EXCEPT !.pc = "done", !.result = "error",
                             !.error = attempts[a].error]]
    /\ lastOp' = NoDisposal
    /\ UNCHANGED <<clients, initializingClients, attempts, closed>>
    /\ UNCHANGED outside

----------------------------------------------------------------------------
\* dispose(serverId), lines 116-129, as a function of the registries.
\* close() may throw: the error is caught and logged, nothing else changes.

Registries ==
    [clients |-> clients, initializingClients |-> initializingClients,
     closed |-> closed]

\* Mutant: dispose leaves initializingClients alone.
DisposeOne_KeepsInFlight(r, serverId) ==
    IF MapHas(r.clients, serverId)
    THEN [clients |-> MapDelete(r.clients, serverId),
          initializingClients |-> r.initializingClients,
          closed |-> r.closed \cup {r.clients[serverId]}]
    ELSE r

\* Mutant: dispose closes the client and forgets clients.delete.
DisposeOne_KeepsRecord(r, serverId) ==
    IF MapHas(r.clients, serverId)
    THEN [clients |-> r.clients,
          initializingClients |-> MapDelete(r.initializingClients, serverId),
          closed |-> r.closed \cup {r.clients[serverId]}]
    ELSE [r EXCEPT !.initializingClients = MapDelete(@, serverId)]

DisposeOne(r, serverId) ==
    IF MapHas(r.clients, serverId)
    THEN [clients |-> MapDelete(r.clients, serverId),
          initializingClients |-> MapDelete(r.initializingClients, serverId),
          closed |-> r.closed \cup {r.clients[serverId]}]
    ELSE [r EXCEPT !.initializingClients = MapDelete(@, serverId)]

\* History: the live attempts of these servers are marked interfered.
MarkInterfered(ids) ==
    [a \in AttemptIds |->
        IF attempts[a].serverId \in ids /\ Live(a)
        THEN [attempts[a] EXCEPT !.interfered = TRUE]
        ELSE attempts[a]]

\* Mutant: dispose without the try/catch around close(): the exception ends
\* the call before the two delete calls.
Dispose_NoCatch(serverId, throws) ==
    /\ IF throws /\ MapHas(clients, serverId)
       THEN /\ closed' = closed \cup {clients[serverId]}
            /\ UNCHANGED <<clients, initializingClients, attempts>>
       ELSE LET r == DisposeOne(Registries, serverId) IN
            /\ clients' = r.clients
            /\ initializingClients' = r.initializingClients
            /\ closed' = r.closed
            /\ attempts' = MarkInterfered({serverId})
    /\ lastOp' = [op |-> "dispose", arg |-> serverId,
                  threw |-> throws /\ MapHas(clients, serverId)]
    /\ UNCHANGED calls
    /\ UNCHANGED outside

Dispose(serverId, throws) ==
    /\ LET r == DisposeOne(Registries, serverId) IN
       /\ clients' = r.clients
       /\ initializingClients' = r.initializingClients
       /\ closed' = r.closed
    /\ attempts' = MarkInterfered({serverId})
    /\ lastOp' = [op |-> "dispose", arg |-> serverId,
                  threw |-> throws /\ MapHas(clients, serverId)]
    /\ UNCHANGED calls
    /\ UNCHANGED outside

\* disposeAll(), lines 131-136: dispose of every key of this.clients.
RECURSIVE DisposeKeys(_, _)
DisposeKeys(r, keys) ==
    IF keys = {} THEN r
    ELSE LET k == CHOOSE x \in keys : \A y \in keys : x <= y IN
         DisposeKeys(DisposeOne(r, k), keys \ {k})

DisposeAll(throws) ==
    /\ LET r == DisposeKeys(Registries, DOMAIN clients) IN
       /\ clients' = r.clients
       /\ initializingClients' = r.initializingClients
       /\ closed' = r.closed
    /\ attempts' = MarkInterfered(DOMAIN clients)
    /\ lastOp' = [op |-> "disposeAll", arg |-> 0,
                  threw |-> throws /\ clients # EmptyMap]
    /\ UNCHANGED calls
    /\ UNCHANGED outside

----------------------------------------------------------------------------

Next ==
    \/ \E serverId \in ServerIds : GetClient(serverId)
    \/ \E a \in 1..MaxCalls, s \in ServerRows : DbResolve(a, s)
    \/ \E a \in 1..MaxCalls : FactoryResolve(a)
    \/ \E a \in 1..MaxCalls : FactoryReject(a)
    \/ \E a \in 1..MaxCalls : TimerFire(a)
    \/ \E c \in 1..MaxCalls : OwnerResume(c)
    \/ \E c \in 1..MaxCalls : JoinerResume(c)
    \/ \E serverId \in ServerIds, throws \in BOOLEAN : Dispose(serverId, throws)
    \/ \E throws \in BOOLEAN : DisposeAll(throws)

Spec == Init /\ [][Next]_vars

\* The event loop runs every armed timer and every queued continuation.
FairSpec ==
    /\ Spec
    /\ \A a \in 1..MaxCalls : WF_vars(TimerFire(a))
    /\ \A c \in 1..MaxCalls : WF_vars(OwnerResume(c))
    /\ \A c \in 1..MaxCalls : WF_vars(JoinerResume(c))

\* The error handling of the mcp:list-tools handler (mcp_handlers.ts): an
\* operation on the client of serverId has failed with error e.

\* The messages of the errors: the handler's own timeout, a transport error,
\* the manager's initialization timeout, and errors of other kinds.
ErrorMessages ==
    {"Timeout listing tools", "SSE error: TypeError: terminated",
     "Body Timeout Error", "request timeout", ErrTimeout,
     "TIMEOUT", "connection refused", ""}

\* String.prototype.includes on messages (case sensitive).
MessageIncludes(message, marker) ==
    \E i \in 1..(Len(message) - Len(marker) + 1) :
        SubSeq(message, i, i + Len(marker) - 1) = marker

\* Mutant: the condition without the "terminated" marker.
ShouldDispose_TimeoutOnly(message) ==
    \/ MessageIncludes(message, "timeout")
    \/ MessageIncludes(message, "Timeout")
    \/ MessageIncludes(message, "Body Timeout")

\* The condition of the if statement.
ShouldDispose(message) ==
    \/ MessageIncludes(message, "timeout")
    \/ MessageIncludes(message, "Timeout")
    \/ MessageIncludes(message, "Body Timeout")
    \/ MessageIncludes(message, "terminated")

\* The handler's reaction to error e of serverId; close() may throw.
ListToolsError(serverId, message, throws) ==
    IF ShouldDispose(message)
    THEN Dispose(serverId, throws)
    ELSE /\ lastOp' = [op |-> "kept", arg |-> serverId, threw |-> FALSE]
         /\ UNCHANGED <<clients, initializingClients, attempts, calls, closed>>
         /\ UNCHANGED outside

\* The manager with the handler that evicts clients on errors.
EvictionNext ==
    \/ Next
    \/ \E serverId \in ServerIds, message \in ErrorMessages, throws \in BOOLEAN :
           ListToolsError(serverId, message, throws)

EvictionSpec == Init /\ [][EvictionNext]_vars

\* The manager with the timer callbacks that run after their race is decided.
RaceNext ==
    \/ Next
    \/ \E a \in 1..MaxCalls : TimerFireLate(a)

RaceSpec == Init /\ [][RaceNext]_vars

\* The manager over servers whose rows may be incomplete.
ConfigNext ==
    \/ Next
    \/ \E a \in 1..MaxCalls, s \in IncompleteRows : DbResolve(a, s)

ConfigSpec == Init /\ [][ConfigNext]_vars

----------------------------------------------------------------------------
\* Vocabulary of the properties.

\* The step is a getClient(id) call: it appends the call's record.
GetClientStep(id) ==
    /\ Len(calls') = Len(calls) + 1
    /\ calls'[Len(calls')].serverId = id

\* The record of the call a getClient step appends.
NewCall == calls'[Len(calls')]

\* The attempts for id whose owner has not yet resumed.
LiveAttempts(id) == {a \in AttemptIds : attempts[a].serverId = id /\ Live(a)}

\* The attempts for id that have started and not yet settled.
UnsettledAttempts(id) ==
    {a \in AttemptIds : attempts[a].serverId = id /\ Unsettled(a)}

\* Step c's owner observes the rejection of its attempt.
OwnerRejects(c) ==
    /\ c \in CallIds
    /\ calls[c].role = "owner"
    /\ calls[c].pc = "await"
    /\ calls'[c].pc = "done"
    /\ calls'[c].result = "error"

\* The lifecycle phase of an identity, read off the two registries.
Phase(id) ==
    IF MapHas(clients, id) THEN "Ready"
    ELSE IF MapHas(initializingClients, id) THEN "Initializing"
    ELSE "Absent"

----------------------------------------------------------------------------
\* C1: getClient(id) calls issued while no client is cached for id, an attempt
\* for id has started and not settled, and no dispose has interfered (none
\* ran on id while a running attempt was in flight, and the running attempt
\* did not start beside an older one) start no second attempt: the step
\* leaves the attempts alone, the caller joins the one running attempt, and
\* that attempt is the registered one.
C1_NoDuplicateInitialization ==
    [][\A id \in ServerIds :
        ( /\ GetClientStep(id)
          /\ ~MapHas(clients, id)
          /\ UnsettledAttempts(id) # {}
          /\ \A a \in LiveAttempts(id) : ~attempts[a].interfered )
        => /\ attempts' = attempts
           /\ Cardinality(LiveAttempts(id)) = 1
           /\ NewCall.role = "joiner"
           /\ NewCall.attempt \in UnsettledAttempts(id)
           /\ initializingClients'[id] = NewCall.attempt]_vars

\* A second caller has joined the running, undisturbed attempt of the first.
C1_Witness ==
    \E c \in CallIds :
        /\ calls[c].role = "joiner"
        /\ calls[c].pc = "await"
        /\ Unsettled(calls[c].attempt)
        /\ ~attempts[calls[c].attempt].interfered
        /\ attempts[calls[c].attempt].owner < c

\* C2: the callers that share one initialization attempt receive the same
\* outcome, which is the attempt's: the client it created, or its rejection.
C2_SharedOutcome ==
    \A c \in CallIds :
        (calls[c].attempt # 0 /\ calls[c].pc = "done") =>
            LET a == calls[c].attempt IN
            /\ attempts[a].stage = "settled"
            /\ IF attempts[a].outcome = "client"
               THEN calls[c].result = "client" /\ calls[c].client = a
               ELSE calls[c].result = "error"
                    /\ calls[c].error = attempts[a].error
            /\ \A d \in CallIds :
                   (calls[d].attempt = a /\ calls[d].pc = "done") =>
                       /\ calls[d].result = calls[c].result
                       /\ calls[d].client = calls[c].client
                       /\ calls[d].error = calls[c].error

\* The owner and a joiner of one attempt both received its timeout rejection.
C2_Witness ==
    \E c, d \in CallIds :
        /\ c # d
        /\ calls[c].attempt # 0
        /\ calls[c].attempt = calls[d].attempt
        /\ calls[c].pc = "done" /\ calls[d].pc = "done"
        /\ calls[c].error = ErrTimeout /\ calls[d].error = ErrTimeout

\* C3: each identity has at most one initialization attempt that has started
\* and not yet settled.
C3_AtMostOneUnsettledAttempt ==
    \A id \in ServerIds : Cardinality(UnsettledAttempts(id)) <= 1

\* C4: when the owner of an attempt observes its rejection, the identity has
\* no client and no in-flight entry.
C4_RejectionLeavesNothingCached ==
    [][\A c \in 1..MaxCalls :
        OwnerRejects(c) =>
            /\ ~MapHas(clients', calls[c].serverId)
            /\ ~MapHas(initializingClients', calls[c].serverId)]_vars

\* C5: a caller that awaits an attempt whose race is open eventually receives
\* the initialization-timeout rejection, unless createMCPClient settles.
C5_TimeoutBoundsTheWait ==
    \A c \in 1..MaxCalls :
        ( /\ c \in CallIds
          /\ calls[c].attempt # 0
          /\ attempts[calls[c].attempt].stage = "racing" )
        ~> ( /\ c \in CallIds
             /\ calls[c].attempt # 0
             /\ \/ attempts[calls[c].attempt].factory # "pending"
                \/ /\ calls[c].pc = "done"
                   /\ calls[c].result = "error"
                   /\ calls[c].error = ErrTimeout )

\* A caller has the timeout rejection while createMCPClient is still pending.
C5_Witness ==
    \E c \in CallIds :
        /\ calls[c].attempt # 0
        /\ attempts[calls[c].attempt].factory = "pending"
        /\ attempts[calls[c].attempt].timer = "fired"
        /\ calls[c].pc = "done"
        /\ calls[c].error = ErrTimeout

C7_DisposeKeepsInFlightEntry ==
    [][\A id \in ServerIds :
        ( /\ lastOp'.op = "dispose"
          /\ lastOp'.arg = id
          /\ MapHas(initializingClients, id) )
        => /\ MapHas(initializingClients', id)
           /\ initializingClients'[id] = initializingClients[id]]_vars

\* C8: an identity changes phase only by Absent -> Initializing,
\* Initializing -> Ready, Initializing -> Absent and Ready -> Absent.
C8_LifecycleTransitions ==
    [][\A id \in ServerIds :
        \/ Phase(id)' = Phase(id)
        \/ <<Phase(id), Phase(id)'>> \in
               { <<"Absent", "Initializing">>, <<"Initializing", "Ready">>,
                 <<"Initializing", "Absent">>, <<"Ready", "Absent">> }]_vars

\* C9: after disposeAll() no identity has a client or an in-flight entry, and
\* close was called on every client that was stored.
C9_DisposeAllEmptiesBothRegistries ==
    [][lastOp'.op = "disposeAll" =>
        /\ clients' = EmptyMap
        /\ initializingClients' = EmptyMap
        /\ \A id \in DOMAIN clients : clients[id] \in closed']_vars

\* C10: getClient(id) on an identity with a stored client returns that client
\* and changes neither registry and no attempt (none started, no timer armed).
C10_CachedClientReturned ==
    [][\A id \in ServerIds :
        (GetClientStep(id) /\ MapHas(clients, id)) =>
            /\ NewCall.pc = "done"
            /\ NewCall.result = "client"
            /\ NewCall.client = clients[id]
            /\ attempts' = attempts
            /\ clients' = clients
            /\ initializingClients' = initializingClients]_vars

\* A call was answered from the registry with the client an attempt stored.
C10_Witness ==
    \E c \in CallIds :
        /\ calls[c].role = "existing"
        /\ calls[c].client \in AttemptIds
        /\ attempts[calls[c].client].outcome = "client"

\* C11: a dispose(id) whose close() throws returns normally and removes the
\* client and any in-flight entry of id exactly as a dispose whose close()
\* succeeds: both deletes run, close() was called, nothing else changes.
C11_CloseFailureSwallowed ==
    [][(lastOp'.op = "dispose" /\ lastOp'.threw) =>
        /\ MapHas(clients, lastOp'.arg)
        /\ clients' = MapDelete(clients, lastOp'.arg)
        /\ initializingClients' = MapDelete(initializingClients, lastOp'.arg)
        /\ closed' = closed \cup {clients[lastOp'.arg]}
        /\ calls' = calls]_vars

\* dispose(id) has just run, its close() threw, and the client is gone.
C11_Witness ==
    /\ lastOp.op = "dispose"
    /\ lastOp.threw
    /\ ~MapHas(clients, lastOp.arg)
    /\ \E a \in closed : attempts[a].serverId = lastOp.arg

\* C12: dispose(id) on an identity with no client and no in-flight entry
\* changes nothing, and a dispose(id) that directly follows a dispose(id)
\* finds nothing to close and changes nothing: twice is the same as once.
C12_DisposeIdempotent ==
    [][\A id \in ServerIds :
        (lastOp'.op = "dispose" /\ lastOp'.arg = id) =>
            /\ ( (~MapHas(clients, id) /\ ~MapHas(initializingClients, id)) =>
                   /\ clients' = clients
                   /\ initializingClients' = initializingClients
                   /\ closed' = closed
                   /\ calls' = calls
                   /\ ~lastOp'.threw )
            /\ ( (lastOp.op = "dispose" /\ lastOp.arg = id) =>
                   /\ ~MapHas(clients, id)
                   /\ ~MapHas(initializingClients, id) )]_vars

\* dispose(id) has just run on an identity it had emptied before: its
\* client is closed and nothing of it is running.
C12_Witness ==
    /\ lastOp.op = "dispose"
    /\ ~lastOp.threw
    /\ \E a \in closed : attempts[a].serverId = lastOp.arg
    /\ LiveAttempts(lastOp.arg) = {}
    /\ \E id \in ServerIds : id # lastOp.arg /\ MapHas(clients, id)

\* C22: the in-flight entry of an attempt is registered from the attempt's
\* start until its owner's continuation runs at the attempt's settlement, and
\* the continuation of one attempt leaves alone the entry of another attempt
\* for the identity that is still running.
C22_InFlightEntryLastsUntilSettlement ==
    /\ [](\A a \in AttemptIds :
            Live(a) =>
                /\ MapHas(initializingClients, attempts[a].serverId)
                /\ initializingClients[attempts[a].serverId] = a)
    /\ [][\A a, b \in 1..MaxCalls :
            ( /\ a \in AttemptIds /\ b \in AttemptIds /\ a # b
              /\ attempts[a].serverId = attempts[b].serverId
              /\ Live(a) /\ ~Live(a)'
              /\ Live(b)
              /\ MapHas(initializingClients, attempts[b].serverId)
              /\ initializingClients[attempts[b].serverId] = b )
            => /\ MapHas(initializingClients', attempts[b].serverId)
               /\ initializingClients'[attempts[b].serverId] = b]_vars

\* C23: the client stored for an identity stays that identity's client, and
\* is what every getClient(id) returns, through every step that is not
\* dispose(id) or disposeAll().
C23_RecordStableUntilDisposed ==
    [][\A id \in ServerIds :
        MapHas(clients, id) =>
            \/ lastOp'.op = "dispose" /\ lastOp'.arg = id
            \/ lastOp'.op = "disposeAll"
            \/ /\ MapHas(clients', id)
               /\ clients'[id] = clients[id]
               /\ GetClientStep(id) =>
                      NewCall.result = "client" /\ NewCall.client = clients[id]]_vars

\* C24: in every state an identity has at most one initialization that has
\* started and not settled (each map holds at most one value per key), and
\* while it has a stored client it has no unsettled initialization, whose
\* client would be a different one.
C24_OneRecordOneInitialization ==
    \A id \in ServerIds :
        /\ Cardinality(UnsettledAttempts(id)) <= 1
        /\ MapHas(clients, id) =>
               \A a \in UnsettledAttempts(id) : a = clients[id]

\* C25: when the timer fires first, every caller of the attempt receives the
\* timeout rejection and the client createMCPClient delivers afterwards is
\* never stored and never returned; when createMCPClient resolves first,
\* every caller receives its client and the timer callback that runs
\* afterwards changes no registry and no call.
C25_RaceLoserIgnored ==
    /\ [](\A a \in AttemptIds :
            attempts[a].error = ErrTimeout =>
                /\ \A c \in CallIds :
                       /\ (calls[c].attempt = a /\ calls[c].pc = "done") =>
                              /\ calls[c].result = "error"
                              /\ calls[c].error = ErrTimeout
                       /\ calls[c].client # a
                /\ \A id \in DOMAIN clients : clients[id] # a)
    /\ [](\A a \in AttemptIds :
            (attempts[a].outcome = "client" /\ attempts[a].timer = "fired") =>
                \A c \in CallIds :
                    (calls[c].attempt = a /\ calls[c].pc = "done") =>
                        calls[c].result = "client" /\ calls[c].client = a)
    /\ [][\A a \in 1..MaxCalls :
            ( /\ a \in AttemptIds
              /\ attempts[a].outcome = "client"
              /\ attempts[a].timer = "armed"
              /\ attempts'[a].timer = "fired" )
            => /\ clients' = clients
               /\ initializingClients' = initializingClients
               /\ calls' = calls
               /\ closed' = closed
               /\ attempts'[a].outcome = "client"]_vars

\* One attempt timed out, its callers have the timeout rejection and its
\* createMCPClient has resolved since; the timer of another attempt, whose
\* client is stored, has fired since.
C25_Witness ==
    \E a, b \in AttemptIds :
        /\ attempts[a].error = ErrTimeout
        /\ attempts[a].factory = "resolved"
        /\ calls[attempts[a].owner].error = ErrTimeout
        /\ attempts[b].outcome = "client"
        /\ attempts[b].timer = "fired"
        /\ MapHas(clients, attempts[b].serverId)
        /\ clients[attempts[b].serverId] = b

\* C26: when the row of the server is missing, is a stdio row without a
\* command, an http row without a url or a row of another transport kind,
\* the attempt rejects with the error message of that defect, and no transport
\* is constructed, createMCPClient is not called and no timer is armed, then
\* or later; the callers of the attempt receive that error.
C26_ConfigErrorBeforeTransport ==
    /\ [][\A a \in 1..MaxCalls, s \in ServerRows \cup IncompleteRows :
            LET message ==
                    IF ~s.found THEN ErrNotFound
                    ELSE IF s.transport = "stdio" /\ ~s.command THEN ErrCommand
                    ELSE IF s.transport = "http" /\ ~s.url THEN ErrUrl
                    ELSE IF s.transport \notin {"stdio", "http"} THEN ErrTransport
                    ELSE "none"
            IN (a \in AttemptIds /\ DbResolve(a, s) /\ message # "none") =>
                   /\ ConfigCheck(s).transport = "none"
                   /\ attempts'[a].stage = "settled"
                   /\ attempts'[a].outcome = "error"
                   /\ attempts'[a].error = message
                   /\ attempts'[a].factory = "none"
                   /\ attempts'[a].timer = "none"]_vars
    /\ [](\A a \in AttemptIds :
            attempts[a].error \in {ErrNotFound, ErrCommand, ErrUrl, ErrTransport} =>
                /\ attempts[a].factory = "none"
                /\ attempts[a].timer = "none"
                /\ \A c \in CallIds :
                       (calls[c].attempt = a /\ calls[c].pc = "done") =>
                           /\ calls[c].result = "error"
                           /\ calls[c].error = attempts[a].error)

\* One getClient call has failed for a missing command and another for an
\* unsupported transport kind.
C26_Witness ==
    \E c, d \in CallIds :
        /\ calls[c].pc = "done" /\ calls[c].error = ErrCommand
        /\ calls[d].pc = "done" /\ calls[d].error = ErrTransport
        /\ attempts[calls[c].attempt].timer = "none"
        /\ attempts[calls[d].attempt].factory = "none"

\* C27: an attempt that rejects for a missing command, a missing url or an
\* unsupported transport kind has no in-flight entry in the state before its
\* rejection, where another caller could observe it, and no caller but its
\* owner has joined it: the error is thrown in the segment of the call.
C27_ConfigErrorSynchronous ==
    /\ [][\A a \in 1..MaxCalls :
            ( /\ a \in AttemptIds
              /\ attempts[a].error = "none"
              /\ attempts'[a].error \in {ErrCommand, ErrUrl, ErrTransport} )
            => ~( /\ MapHas(initializingClients, attempts[a].serverId)
                  /\ initializingClients[attempts[a].serverId] = a )]_vars
    /\ [](\A c \in CallIds :
            calls[c].role = "joiner" =>
                attempts[calls[c].attempt].error
                    \notin {ErrCommand, ErrUrl, ErrTransport})

C37_JoinersNotStranded ==
    /\ [][\A c \in CallIds :
            (calls[c].role = "joiner" /\ calls[c].pc = "await"
                /\ calls'[c].pc = "done") =>
                LET a == calls[c].attempt IN
                \/ /\ attempts[a].outcome = "client"
                   /\ calls'[c].result = "client"
                   /\ calls'[c].client = a
                \/ /\ attempts[a].outcome = "error"
                   /\ calls'[c].result = "error"
                   /\ calls'[c].error = attempts[a].error]_vars
    /\ \A c \in 1..MaxCalls :
           ( /\ c \in CallIds
             /\ calls[c].pc = "await"
             /\ attempts[calls[c].attempt].stage # "db" )
           ~> ( c \in CallIds /\ calls[c].pc = "done" )

\* A joiner awaits an attempt whose race is open, after dispose has removed
\* the in-flight entry of its identity.
C37_Witness ==
    \E c \in CallIds :
        /\ calls[c].role = "joiner"
        /\ calls[c].pc = "await"
        /\ attempts[calls[c].attempt].stage = "racing"
        /\ attempts[calls[c].attempt].interfered
        /\ lastOp.op \in {"dispose", "disposeAll"}
        /\ ~MapHas(initializingClients, calls[c].serverId)

\* C38
\* No client is leaked: once the getClient call that owns an attempt has
\* returned, a client that createMCPClient produced for the attempt is the
\* stored client of its identity or has been closed by the manager.
C38_NoClientLeaked ==
    \A a \in AttemptIds :
        (attempts[a].factory = "resolved" /\ ~Live(a)) =>
            \/ /\ MapHas(clients, attempts[a].serverId)
               /\ clients[attempts[a].serverId] = a
            \/ a \in closed

----------------------------------------------------------------------------
(***************************************************************************)
(* Routing of a model request (getRegularModelClient, get_model_client.ts, *)
(* cases "google" and "openai"): the provider is reached through its       *)
(* command-line tool or through its HTTP API.                              *)
(*                                                                         *)
(*   up to `await ensure...CliAvailable`    GetRegularModelClient          *)
(*   the detection settles                  EnsureCliAvailable             *)
(*   `await create...CliModel` settles      CreateCliModel                 *)
(*                                                                         *)
(* The catch block and the API path run in the segment of the failure that *)
(* leads to them.  Settings values are strings; Unset is `undefined`.      *)
(***************************************************************************)

\* Length bound of the cliPreferredModels lists.
MaxPreferred == 2

Unset == "undefined"

Providers == {"google", "openai"}
ConnectionModes == {Unset, "api", "cli", "auto"}
FallbackFlags == {Unset, "true", "false"}
SettingsKeys == {Unset, "", "key-from-settings"}
EnvKeys == {Unset, "key-from-env"}
ModelNames == {"model-a", "model-b", "model-c"}
PreferredLists ==
    {[defined |-> FALSE, items |-> <<>>]} \cup
    {[defined |-> TRUE, items |-> l] :
        l \in UNION {[1..n -> ModelNames] : n \in 0..MaxPreferred}}

\* JavaScript `a || b` and `a ?? b` on these values.
Truthy(v) == v \notin {Unset, ""}
OrElse(a, b) == IF Truthy(a) THEN a ELSE b
Nullish(a, b) == IF a = Unset THEN b ELSE a

ErrCliUnavailable ==
    [google |-> "Gemini CLI is not available.",
     openai |-> "Codex CLI is not available."]
ErrCliModel == "createOpenAICompatible failed"
ErrNoKeyForFallback ==
    [google |-> "Gemini CLI is unavailable and no Gemini API key is configured for fallback.",
     openai |-> "Codex CLI is unavailable and no OpenAI API key is configured for fallback."]
ErrNoApiKey ==
    [google |-> "Gemini API key is not configured.",
     openai |-> "OpenAI API key is required when using API mode or fallback."]
ErrFallbackDisabled == "Codex CLI is not available and API fallback is disabled."

\* A call of getRegularModelClient with its settings and its environment
\* (the API key variable, whether the command-line tool can be found).
Resolutions ==
    [pc : {"start"},
     provider : Providers,
     connectionMode : ConnectionModes,
     cliFallbackToApi : FallbackFlags,
     apiKeySetting : SettingsKeys,
     apiKeyEnv : EnvKeys,
     modelName : ModelNames,
     cliPreferredModels : PreferredLists,
     cliInstalled : BOOLEAN,
     detectCalls : {0}, cliModelCalls : {0}, apiFactoryCalls : {0},
     cliModelId : {Unset},
     cliError : {Unset},
     result : {[kind |-> "pending", message |-> ""]}]

\* lines 218-222.
ApiKey(r) == OrElse(r.apiKeySetting, r.apiKeyEnv)
\* lines 252-253, 329-330.
ConnectionMode(r) == Nullish(r.connectionMode, "api")
\* Mutant: a flag that is not set counts as false.
CliFallbackToApi_DefaultFalse(r) == Nullish(r.cliFallbackToApi, "false")

CliFallbackToApi(r) == Nullish(r.cliFallbackToApi, "true")
\* Mutant: only the automatic mode allows the fallback.
AllowFallback_AutoOnly(r) == ConnectionMode(r) = "auto"

\* lines 290-291, 367-368.
AllowFallback(r) == ConnectionMode(r) = "auto" \/ CliFallbackToApi(r) = "true"
\* Mutant: the automatic mode does not count.
ShouldUseApiFallback_NoAuto(r) ==
    \/ ConnectionMode(r) = "api"
    \/ CliFallbackToApi(r) = "true"

\* lines 386-389 (openai only).
ShouldUseApiFallback(r) ==
    \/ ConnectionMode(r) = "api"
    \/ ConnectionMode(r) = "auto"
    \/ CliFallbackToApi(r) = "true"

\* Mutant: a model outside the list is replaced by the last preferred one.
SelectCliModel_LastPreferred(requestedModel, preferredModels) ==
    IF preferredModels.defined /\ Len(preferredModels.items) > 0
    THEN IF \E i \in 1..Len(preferredModels.items) :
                preferredModels.items[i] = requestedModel
         THEN requestedModel
         ELSE preferredModels.items[Len(preferredModels.items)]
    ELSE requestedModel

\* selectCliModel, lines 568-579.
SelectCliModel(requestedModel, preferredModels) ==
    IF preferredModels.defined /\ Len(preferredModels.items) > 0
    THEN IF \E i \in 1..Len(preferredModels.items) :
                preferredModels.items[i] = requestedModel
         THEN requestedModel
         ELSE preferredModels.items[1]
    ELSE requestedModel

Reject(r, message) ==
    [r EXCEPT !.pc = "done", !.result = [kind |-> "error", message |-> message]]

\* Mutant: the openai case asks for the fallback flag in every mode.
ApiPath_OpenAiNeedsFlag(r) ==
    IF r.provider = "openai" /\ CliFallbackToApi(r) # "true"
    THEN Reject(r, ErrFallbackDisabled)
    ELSE IF ~Truthy(ApiKey(r))
    THEN Reject(r, ErrNoApiKey[r.provider])
    ELSE [r EXCEPT !.pc = "done", !.apiFactoryCalls = @ + 1,
                   !.result = [kind |-> "api", message |-> ""]]

\* The API path: lines 309-322 (google), 386-410 (openai).
ApiPath(r) ==
    IF r.provider = "openai" /\ ~ShouldUseApiFallback(r)
    THEN Reject(r, ErrFallbackDisabled)
    ELSE IF ~Truthy(ApiKey(r))
    THEN Reject(r, ErrNoApiKey[r.provider])
    ELSE [r EXCEPT !.pc = "done", !.apiFactoryCalls = @ + 1,
                   !.result = [kind |-> "api", message |-> ""]]

\* Mutant: a failure of the command-line path always goes on to the API.
CliFailure_AlwaysFallsBack(r, message) ==
    ApiPath([r EXCEPT !.cliError = message])

\* Mutant: the catch block without its own key check.
CliFailure_NoKeyCheck(r, message) ==
    IF ~AllowFallback(r)
    THEN Reject([r EXCEPT !.cliError = message], message)
    ELSE ApiPath([r EXCEPT !.cliError = message])

\* The catch block, lines 284-306 and 361-383, for a thrown Error, and what
\* follows it.
CliFailure(r, message) ==
    LET failed == [r EXCEPT !.cliError = message] IN
    IF ~AllowFallback(r)
    THEN Reject(failed, message)
    ELSE IF ~Truthy(ApiKey(r))
    THEN Reject(failed, ErrNoKeyForFallback[r.provider])
    ELSE ApiPath(failed)

\* Mutant: the command-line path is tried whatever the mode.
GetRegularModelClient_AlwaysCli ==
    /\ resolution.pc = "start"
    /\ resolution' = [resolution EXCEPT !.pc = "detecting", !.detectCalls = @ + 1]
    /\ UNCHANGED <<managerVars, bridge, locator, runner>>

\* lines 247-261, 324-337: the call up to the detection, or the API path.
GetRegularModelClient ==
    /\ resolution.pc = "start"
    /\ resolution' =
           IF ConnectionMode(resolution) # "api"
           THEN [resolution EXCEPT !.pc = "detecting", !.detectCalls = @ + 1]
           ELSE ApiPath(resolution)
    /\ UNCHANGED <<managerVars, bridge, locator, runner>>

\* Mutant: the error of the detection is thrown outside the try block.
EnsureCliAvailable_Uncaught ==
    /\ resolution.pc = "detecting"
    /\ resolution' =
           IF resolution.cliInstalled
           THEN [resolution EXCEPT
                    !.pc = "building",
                    !.cliModelId = SelectCliModel(resolution.modelName,
                                                  resolution.cliPreferredModels),
                    !.cliModelCalls = @ + 1]
           ELSE Reject([resolution EXCEPT
                           !.cliError = ErrCliUnavailable[resolution.provider]],
                       ErrCliUnavailable[resolution.provider])
    /\ UNCHANGED <<managerVars, bridge, locator, runner>>

\* ensureGeminiCliAvailable / ensureCodexCliAvailable settles: lines 261-275,
\* 337-352 (the model is selected and the CLI model requested), or the catch.
EnsureCliAvailable ==
    /\ resolution.pc = "detecting"
    /\ resolution' =
           IF resolution.cliInstalled
           THEN [resolution EXCEPT
                    !.pc = "building",
                    !.cliModelId = SelectCliModel(resolution.modelName,
                                                  resolution.cliPreferredModels),
                    !.cliModelCalls = @ + 1]
           ELSE CliFailure(resolution, ErrCliUnavailable[resolution.provider])
    /\ UNCHANGED <<managerVars, bridge, locator, runner>>

\* createGeminiCliModel / createCodexCliModel settles: lines 277-283,
\* 354-360, or the catch.
CreateCliModel(throws) ==
    /\ resolution.pc = "building"
    /\ resolution' =
           IF throws
           THEN CliFailure(resolution, ErrCliModel)
           ELSE [resolution EXCEPT !.pc = "done",
                                   !.result = [kind |-> "cli", message |-> ""]]
    /\ UNCHANGED <<managerVars, bridge, locator, runner>>

RoutingInit ==
    /\ ManagerInit
    /\ resolution \in Resolutions
    /\ bridge = Idle
    /\ locator = Idle
    /\ runner = Idle

RoutingNext ==
    \/ GetRegularModelClient
    \/ EnsureCliAvailable
    \/ \E throws \in BOOLEAN : CreateCliModel(throws)

RoutingSpec == RoutingInit /\ [][RoutingNext]_vars

\* The call has settled after trying the command-line path, which failed.
CliPathFailed == resolution.pc = "done" /\ resolution.cliError # Unset

\* C13: for google and for openai, with mode "cli", cliFallbackToApi false
\* and the command-line path failing, the call rejects with the error of
\* the command-line path and the API client factory is never invoked.
C13_LocalOnlyNoFallbackRejects ==
    (/\ CliPathFailed
     /\ resolution.connectionMode = "cli"
     /\ resolution.cliFallbackToApi = "false")
    => /\ resolution.result = [kind |-> "error", message |-> resolution.cliError]
       /\ resolution.cliError \in
              {ErrCliUnavailable[resolution.provider], ErrCliModel}
       /\ resolution.apiFactoryCalls = 0

\* A "cli"-mode call without fallback has failed although a key was there.
C13_Witness ==
    /\ CliPathFailed
    /\ resolution.connectionMode = "cli"
    /\ resolution.cliFallbackToApi = "false"
    /\ Truthy(ApiKey(resolution))
    /\ resolution.result.kind = "error"

\* C14: for google and for openai, with mode "cli", cliFallbackToApi true,
\* the command-line path failing and an API key configured, the call builds
\* the API client and returns it.
C14_LocalOnlyFallbackBuildsRemote ==
    (/\ CliPathFailed
     /\ resolution.connectionMode = "cli"
     /\ resolution.cliFallbackToApi = "true"
     /\ Truthy(ApiKey(resolution)))
    => /\ resolution.result.kind = "api"
       /\ resolution.apiFactoryCalls = 1

\* A "cli"-mode call with fallback has failed on the command line and
\* returned the API client.
C14_Witness ==
    /\ CliPathFailed
    /\ resolution.connectionMode = "cli"
    /\ resolution.cliFallbackToApi = "true"
    /\ resolution.result.kind = "api"

\* C15: for google and for openai, with mode "auto", the command-line path
\* failing and no API key configured, the call rejects with the dedicated
\* "CLI unavailable and no API key configured for fallback" error, whatever
\* cliFallbackToApi is; not with the command-line error, not with the plain
\* missing-key error.
C15_AutoNoCredentialDedicatedError ==
    (/\ CliPathFailed
     /\ resolution.connectionMode = "auto"
     /\ ~Truthy(ApiKey(resolution)))
    => /\ resolution.result =
              [kind |-> "error",
               message |-> ErrNoKeyForFallback[resolution.provider]]
       /\ resolution.result.message # resolution.cliError
       /\ resolution.result.message # ErrNoApiKey[resolution.provider]
       /\ resolution.apiFactoryCalls = 0

\* An "auto"-mode call without a key has failed, with the fallback switched
\* off in the settings.
C15_Witness ==
    /\ CliPathFailed
    /\ resolution.connectionMode = "auto"
    /\ ~Truthy(ApiKey(resolution))
    /\ resolution.cliFallbackToApi = "false"
    /\ resolution.result.kind = "error"

\* C16: for google and for openai, in mode "api" (also when the mode is not
\* set) neither the detection nor the CLI model builder is ever invoked,
\* whether or not the tool is installed, and the call settles in its first
\* segment with the API client if a key is configured and with the
\* missing-key error if not.
C16_RemoteOnlySkipsLocal ==
    (resolution.pc # "idle" /\ ConnectionMode(resolution) = "api")
    => /\ resolution.detectCalls = 0
       /\ resolution.cliModelCalls = 0
       /\ resolution.pc \in {"start", "done"}
       /\ resolution.pc = "done" =>
              resolution.result =
                  IF Truthy(ApiKey(resolution))
                  THEN [kind |-> "api", message |-> ""]
                  ELSE [kind |-> "error",
                        message |-> ErrNoApiKey[resolution.provider]]

\* A call without a mode in its settings has returned the API client on a
\* machine where the tool is installed.
C16_Witness ==
    /\ resolution.pc = "done"
    /\ resolution.connectionMode = Unset
    /\ resolution.cliInstalled
    /\ resolution.result.kind = "api"

\* C29, as stated: with mode "cli" or "auto" and a tool that cannot be
\* found, the call rejects with the error of the detection and the API client
\* factory is not invoked, whatever the fallback flag and the API key are.
C29_UnresolvedRaisesImmediately ==
    (/\ resolution.pc = "done"
     /\ ConnectionMode(resolution) \in {"cli", "auto"}
     /\ ~resolution.cliInstalled)
    => /\ resolution.result =
              [kind |-> "error",
               message |-> ErrCliUnavailable[resolution.provider]]
       /\ resolution.apiFactoryCalls = 0

\* C29, amended: with mode "cli" or "auto" and a tool that cannot be found,
\* the error of the detection is raised before a model is selected or a CLI
\* model requested, and is handled as every failure of the command-line
\* path: it is the call's error if the fallback is not allowed (mode "cli"
\* with cliFallbackToApi false); if the fallback is allowed the call rejects
\* with the "no API key configured for fallback" error when no key is
\* configured, and builds and returns the API client when one is.
C29_UnresolvedFollowsFallbackPolicy ==
    (/\ resolution.pc = "done"
     /\ ConnectionMode(resolution) \in {"cli", "auto"}
     /\ ~resolution.cliInstalled)
    => /\ resolution.cliError = ErrCliUnavailable[resolution.provider]
       /\ resolution.detectCalls = 1
       /\ resolution.cliModelCalls = 0
       /\ resolution.cliModelId = Unset
       /\ IF resolution.connectionMode = "cli"
             /\ resolution.cliFallbackToApi = "false"
          THEN /\ resolution.result =
                      [kind |-> "error", message |-> resolution.cliError]
               /\ resolution.apiFactoryCalls = 0
          ELSE IF OrElse(resolution.apiKeySetting, resolution.apiKeyEnv) \in {Unset, ""}
          THEN /\ resolution.result =
                      [kind |-> "error",
                       message |-> ErrNoKeyForFallback[resolution.provider]]
               /\ resolution.apiFactoryCalls = 0
          ELSE /\ resolution.result = [kind |-> "api", message |-> ""]
               /\ resolution.apiFactoryCalls = 1

\* A call in mode "auto" on a machine without the tool has returned the API
\* client.
C29_Witness ==
    /\ resolution.pc = "done"
    /\ resolution.connectionMode = "auto"
    /\ ~resolution.cliInstalled
    /\ resolution.cliError = ErrCliUnavailable[resolution.provider]
    /\ resolution.cliModelCalls = 0
    /\ resolution.result.kind = "api"

\* C30, as stated: a failure of the command-line path goes on to the API
\* path exactly when the mode is "auto" or cliFallbackToApi is set to true in
\* the settings; in mode "cli" with the flag not set the call rejects with
\* the error of the command-line path and the API client factory is not
\* invoked.
C30_FallbackOnlyIfFlagExplicit ==
    CliPathFailed =>
        IF resolution.connectionMode = "auto"
           \/ resolution.cliFallbackToApi = "true"
        THEN resolution.result # [kind |-> "error", message |-> resolution.cliError]
        ELSE /\ resolution.result =
                    [kind |-> "error", message |-> resolution.cliError]
             /\ resolution.apiFactoryCalls = 0

\* C30, amended: a failure of the command-line path goes on to the API path
\* exactly when the mode is "auto" or cliFallbackToApi is true, and a flag
\* that is not set counts as true: in mode "cli" the call rejects with the
\* error of the command-line path, without invoking the API client factory,
\* only if the flag is set to false; otherwise it returns the API client if a
\* key is configured and rejects with the "no API key configured for
\* fallback" error if none is.
C30_FallbackUnlessFlagFalse ==
    CliPathFailed =>
        IF resolution.connectionMode = "auto"
           \/ resolution.cliFallbackToApi \in {"true", Unset}
        THEN IF OrElse(resolution.apiKeySetting, resolution.apiKeyEnv) \in {Unset, ""}
             THEN /\ resolution.result =
                         [kind |-> "error",
                          message |-> ErrNoKeyForFallback[resolution.provider]]
                  /\ resolution.apiFactoryCalls = 0
             ELSE /\ resolution.result = [kind |-> "api", message |-> ""]
                  /\ resolution.apiFactoryCalls = 1
        ELSE /\ resolution.connectionMode = "cli"
             /\ resolution.cliFallbackToApi = "false"
             /\ resolution.result =
                    [kind |-> "error", message |-> resolution.cliError]
             /\ resolution.apiFactoryCalls = 0

\* A "cli"-mode call without a fallback flag in its settings has failed on
\* the command line, with the tool installed, and returned the API client.
C30_Witness ==
    /\ CliPathFailed
    /\ resolution.connectionMode = "cli"
    /\ resolution.cliFallbackToApi = Unset
    /\ resolution.cliInstalled
    /\ resolution.result.kind = "api"

\* C32
\* The model requested from the command-line tool is the requested model
\* when cliPreferredModels is absent, is empty or contains the requested
\* model, and the first preferred model otherwise; so it is the requested
\* model or a member of the list.
C32_EffectiveModelFollowsAllowlist ==
    resolution.cliModelCalls > 0 =>
        LET items == resolution.cliPreferredModels.items
            configured == resolution.cliPreferredModels.defined /\ items # <<>>
            listed == {items[i] : i \in 1..Len(items)}
        IN /\ (~configured \/ resolution.modelName \in listed)
                  => resolution.cliModelId = resolution.modelName
           /\ (configured /\ resolution.modelName \notin listed)
                  => resolution.cliModelId = items[1]
           /\ resolution.cliModelId \in {resolution.modelName} \cup listed

\* The tool was asked for the first of two different preferred models,
\* neither of which is the requested one.
C32_Witness ==
    /\ resolution.cliModelCalls > 0
    /\ Len(resolution.cliPreferredModels.items) = 2
    /\ resolution.cliPreferredModels.items[1]
           # resolution.cliPreferredModels.items[2]
    /\ resolution.modelName # resolution.cliPreferredModels.items[1]
    /\ resolution.modelName # resolution.cliPreferredModels.items[2]
    /\ resolution.cliModelId = resolution.cliPreferredModels.items[1]

\* C39
\* The kind of result of a settled call (command-line client, API client,
\* the error of the command-line path, the no-key-for-fallback error, the
\* missing-key error) is a function of the connection mode, the fallback
\* flag, the outcome of the command-line path and the presence of a key
\* that does not depend on the provider: google and openai calls with the
\* same settings and environment end with the same kind of result.
C39_ProvidersOutcomeEquivalent ==
    resolution.pc = "done" =>
        LET r == resolution
            kind ==
                IF r.result.kind # "error" THEN r.result.kind
                ELSE IF r.result.message = ErrNoKeyForFallback[r.provider]
                THEN "no key for fallback"
                ELSE IF r.result.message = ErrNoApiKey[r.provider]
                THEN "missing key"
                ELSE IF r.cliError # Unset /\ r.result.message = r.cliError
                THEN "cli error"
                ELSE "other"
            key == \/ r.apiKeySetting \notin {Unset, ""}
                   \/ r.apiKeyEnv \notin {Unset, ""}
            cliFailed == r.cliError # Unset
            allowed == \/ r.connectionMode = "auto"
                       \/ r.cliFallbackToApi \in {Unset, "true"}
        IN kind =
             IF r.connectionMode \in {Unset, "api"}
             THEN IF key THEN "api" ELSE "missing key"
             ELSE IF ~cliFailed THEN "cli"
             ELSE IF ~allowed THEN "cli error"
             ELSE IF ~key THEN "no key for fallback"
             ELSE "api"

\* An openai call in mode "api" with the fallback flag false has returned
\* the API client, as a google call does.
C39_Witness ==
    /\ resolution.pc = "done"
    /\ resolution.provider = "openai"
    /\ resolution.connectionMode = "api"
    /\ resolution.cliFallbackToApi = "false"
    /\ resolution.detectCalls = 0
    /\ resolution.result.kind = "api"

\* C40
\* An openai call never ends with the error "Codex CLI is not available and
\* API fallback is disabled": whenever it gets to the shouldUseApiFallback
\* test (it settles with the API client or with the missing-key error), the
\* mode is "api" or "auto" or the fallback flag is true.
C40_FallbackDisabledUnreachable ==
    (resolution.pc = "done" /\ resolution.provider = "openai") =>
        /\ resolution.result.message # ErrFallbackDisabled
        /\ (\/ resolution.result.kind = "api"
            \/ resolution.result.message = ErrNoApiKey["openai"])
           => \/ resolution.connectionMode \in {Unset, "api", "auto"}
              \/ resolution.cliFallbackToApi \in {Unset, "true"}

\* An openai call in mode "auto" with the fallback flag false got past the
\* test after the command-line path had failed.
C40_Witness ==
    /\ CliPathFailed
    /\ resolution.provider = "openai"
    /\ resolution.connectionMode = "auto"
    /\ resolution.cliFallbackToApi = "false"
    /\ resolution.result.kind = "api"

----------------------------------------------------------------------------
(***************************************************************************)
(* The entry point getModelClient (get_model_client.ts): the Dyad Pro      *)
(* override, the "auto" provider with its list AUTO_MODELS, and the hand-  *)
(* over to getRegularModelClient.  One call is one step; the recursive     *)
(* call of the "auto" branch is the next step, one level deeper.           *)
(***************************************************************************)

AUTO_MODELS ==
    << [provider |-> "google", name |-> "gemini-2.5-flash"],
       [provider |-> "openrouter", name |-> "qwen/qwen3-coder:free"],
       [provider |-> "anthropic", name |-> "claude-sonnet-4-20250514"],
       [provider |-> "openai", name |-> "gpt-4.1"] >>

AutoProviders == {AUTO_MODELS[i].provider : i \in 1..Len(AUTO_MODELS)}

\* The providers getLanguageModelProviders returns: the built-in ones.
AllProviders == AutoProviders \cup {"auto"}

ErrNoAutoKeys ==
    "No API keys available for any model supported by the 'auto' provider."

\* A call of getModelClient, for a pseudo-model of "auto", a model of a
\* listed provider or a model of a provider that is not registered, with
\* the settings and the environment it reads:
\* the saved key and the value of the environment variable of each listed
\* provider, whether Dyad Pro is on with a key, and the providers the
\* gateway serves (gatewayPrefix != null, or an engine URL is set).
Selections ==
    [pc : {"start"},
     model : {[provider |-> "auto", name |-> "auto"],
              [provider |-> "auto", name |-> "free"],
              [provider |-> "openai", name |-> "gpt-4.1"],
              [provider |-> "custom::gone", name |-> "model-a"]},
     apiKeySettings : [AutoProviders -> SettingsKeys],
     envValues : [AutoProviders -> EnvKeys],
     dyadPro : BOOLEAN,
     gatewayProviders : {{}, {"auto"}, AutoProviders, AllProviders},
     depth : {0},
     result : {[kind |-> "pending", provider |-> Unset, message |-> ""]}]

\* lines 182-184.
AutoApiKey(s, provider) ==
    OrElse(s.apiKeySettings[provider], s.envValues[provider])

Settled(s, kind, provider, message) ==
    [s EXCEPT !.pc = "done",
              !.result = [kind |-> kind, provider |-> provider,
                          message |-> message]]

\* Mutant: the loop keeps going and the last pair with a key wins.
RECURSIVE AutoWalk_LastPairWins(_, _)
AutoWalk_LastPairWins(s, i) ==
    IF i > Len(AUTO_MODELS)
    THEN Settled(s, "error", Unset, ErrNoAutoKeys)
    ELSE LET later == AutoWalk_LastPairWins(s, i + 1)
         IN IF later.pc = "start" \/ ~Truthy(AutoApiKey(s, AUTO_MODELS[i].provider))
            THEN later
            ELSE [s EXCEPT !.model = AUTO_MODELS[i], !.depth = @ + 1]

\* The loop over AUTO_MODELS from its i-th pair on: the first pair with a
\* key is the model of the recursive call.
RECURSIVE AutoWalk(_, _)
AutoWalk(s, i) ==
    IF i > Len(AUTO_MODELS)
    THEN Settled(s, "error", Unset, ErrNoAutoKeys)
    ELSE IF Truthy(AutoApiKey(s, AUTO_MODELS[i].provider))
         THEN [s EXCEPT !.model = AUTO_MODELS[i], !.depth = @ + 1]
         ELSE AutoWalk(s, i + 1)

\* Whether this call reaches the loop over AUTO_MODELS.
ReachesAutoWalk(s) ==
    /\ s.pc = "start"
    /\ s.model.provider \in AllProviders
    /\ ~(s.dyadPro /\ s.model.provider \in s.gatewayProviders)
    /\ s.model.provider = "auto"
    /\ s.model.name # "free"

\* One call of getModelClient.
GetModelClient ==
    /\ resolution.pc = "start"
    /\ resolution' =
         IF resolution.model.provider \notin AllProviders
         THEN Settled(resolution, "error", Unset,
                      "Configuration not found for provider")
         ELSE IF /\ resolution.dyadPro
                 /\ resolution.model.provider \in resolution.gatewayProviders
         THEN Settled(resolution, "gateway", resolution.model.provider, "")
         ELSE IF resolution.model.provider = "auto"
         THEN IF resolution.model.name = "free"
              THEN Settled(resolution, "free", "openrouter", "")
              ELSE AutoWalk(resolution, 1)
         ELSE Settled(resolution, "regular", resolution.model.provider, "")
    /\ UNCHANGED <<managerVars, bridge, locator, runner>>

AutoInit ==
    /\ ManagerInit
    /\ resolution \in Selections
    /\ bridge = Idle
    /\ locator = Idle
    /\ runner = Idle

AutoNext == GetModelClient

AutoSpec == AutoInit /\ [][AutoNext]_vars

\* C31
\* A call that reaches the loop over the automatic list continues with the
\* first pair of the list whose provider has a key in the saved settings
\* or in its environment variable, and with no later one; without any key
\* it fails with the "No API keys available" error.  The recursion is one
\* level deep: the recursive call is for a listed provider, never "auto".
C31_AutoPicksFirstPairWithCredential ==
    /\ [][ReachesAutoWalk(resolution) =>
            LET HasKey(i) ==
                    \/ resolution.apiKeySettings[AUTO_MODELS[i].provider]
                           \notin {Unset, ""}
                    \/ resolution.envValues[AUTO_MODELS[i].provider]
                           \notin {Unset, ""}
                indices == 1..Len(AUTO_MODELS)
            IN IF \E i \in indices : HasKey(i)
               THEN \E i \in indices :
                        /\ HasKey(i)
                        /\ \A j \in 1..(i - 1) : ~HasKey(j)
                        /\ resolution'.pc = "start"
                        /\ resolution'.model = AUTO_MODELS[i]
                        /\ resolution'.depth = resolution.depth + 1
               ELSE /\ resolution'.pc = "done"
                    /\ resolution'.result.kind = "error"
                    /\ resolution'.result.message = ErrNoAutoKeys]_vars
    /\ [](resolution.depth <= 1)
    /\ [](resolution.depth = 1 => resolution.model.provider # "auto")
    /\ [][resolution.depth = 1 =>
            /\ resolution'.pc = "done"
            /\ resolution'.result.kind \in {"gateway", "regular"}
            /\ resolution'.result.provider = resolution.model.provider]_vars

\* The recursive call has settled for a pair that is not the first of the
\* list: google has no key, a later provider has one.
C31_Witness ==
    /\ resolution.pc = "done"
    /\ resolution.depth = 1
    /\ ~Truthy(AutoApiKey(resolution, "google"))
    /\ resolution.result.kind = "regular"
    /\ resolution.result.provider = "anthropic"
    /\ Truthy(AutoApiKey(resolution, "openai"))

----------------------------------------------------------------------------
(***************************************************************************)
(* The protocol bridges: createCliFetch (gemini_cli_provider.ts) and       *)
(* createCodexCliFetch (codex_cli_provider.ts) answer a chat-completion    *)
(* request from the output of one run of the command-line tool.            *)
(*                                                                         *)
(*   up to `await run...CliCommand`     CliFetch                           *)
(*   the run settles, the rest          RunCliCommand                      *)
(*                                                                         *)
(* Process output is text; the string functions below work on characters.  *)
(* JSON.parse is tabulated on the texts the model uses (JsonTable).        *)
(***************************************************************************)

\* Number of event lines in the output of a run.
MaxEvents == 2

\* String.prototype.includes.
Includes(s, sub) ==
    \E i \in 1..(Len(s) - Len(sub) + 1) : SubSeq(s, i, i + Len(sub) - 1) = sub

\* s.toLowerCase().includes(sub), for a sub without capital letters.
IncludesLower(s, sub) ==
    LET upper == "ABCDEFGHIJKLMNOPQRSTUVWXYZ"
        lower == "abcdefghijklmnopqrstuvwxyz"
        low(c) == IF Includes(upper, c)
                  THEN LET i == CHOOSE i \in 1..Len(upper) : SubSeq(upper, i, i) = c
                       IN SubSeq(lower, i, i)
                  ELSE c
    IN \E i \in 1..(Len(s) - Len(sub) + 1) :
           \A k \in 1..Len(sub) :
               low(SubSeq(s, i + k - 1, i + k - 1)) = SubSeq(sub, k, k)

\* String.prototype.trim.
Trim(s) ==
    LET ink == {i \in 1..Len(s) : SubSeq(s, i, i) \notin {" ", "\n", "\r", "\t"}}
    IN IF ink = {} THEN ""
       ELSE SubSeq(s, CHOOSE i \in ink : \A j \in ink : i <= j,
                      CHOOSE i \in ink : \A j \in ink : j <= i)

\* s.split(/\r?\n/).
RECURSIVE SplitLines(_)
SplitLines(s) ==
    IF ~Includes(s, "\n") THEN <<s>>
    ELSE LET i == CHOOSE i \in 1..Len(s) :
                      /\ SubSeq(s, i, i) = "\n"
                      /\ \A j \in 1..(i - 1) : SubSeq(s, j, j) # "\n"
             head == SubSeq(s, 1, i - 1)
             line == IF head # "" /\ SubSeq(head, Len(head), Len(head)) = "\r"
                     THEN SubSeq(head, 1, Len(head) - 1)
                     ELSE head
         IN <<line>> \o SplitLines(SubSeq(s, i + 1, Len(s)))

\* Array.prototype.filter(Boolean) and join on arrays of strings.
RECURSIVE FilterTruthy(_)
FilterTruthy(a) ==
    IF a = <<>> THEN <<>>
    ELSE (IF Truthy(Head(a)) THEN <<Head(a)>> ELSE <<>>) \o FilterTruthy(Tail(a))

RECURSIVE Join(_, _)
Join(a, sep) ==
    IF a = <<>> THEN ""
    ELSE IF Len(a) = 1 THEN a[1]
    ELSE a[1] \o sep \o Join(Tail(a), sep)

\* A parsed JSON value, by the members the bridges read.
JsonValue ==
    [valid |-> TRUE, string |-> Unset, response |-> Unset, tokens |-> <<>>,
     error |-> Unset, type |-> Unset, message |-> Unset, delta |-> Unset,
     outputText |-> [array |-> FALSE, items |-> <<>>],
     content |-> [array |-> FALSE, items |-> <<>>]]

\* JSON.parse on the JSON texts of the model.
JsonTable ==
    ("{\"response\":\"Hello\"}" :> [JsonValue EXCEPT !.response = "Hello"]) @@
    ("{\"response\":\" Hi \",\"stats\":{\"models\":{\"m\":{\"tokens\":{\"prompt\":1,\"candidates\":2,\"total\":3}}}}}"
        :> [JsonValue EXCEPT !.response = " Hi ", !.tokens = <<1, 2, 3>>]) @@
    ("\"quoted\"" :> [JsonValue EXCEPT !.string = "quoted"]) @@
    ("{\"error\":{\"message\":\"RESOURCE_EXHAUSTED\"}}"
        :> [JsonValue EXCEPT !.error = "RESOURCE_EXHAUSTED"]) @@
    ("{\"type\":\"response.output_text.delta\",\"delta\":\"Hel\"}"
        :> [JsonValue EXCEPT !.type = "response.output_text.delta",
                             !.delta = "Hel"]) @@
    ("{\"type\":\"response.output_text.delta\",\"delta\":\"lo \"}"
        :> [JsonValue EXCEPT !.type = "response.output_text.delta",
                             !.delta = "lo "]) @@
    ("{\"type\":\"response.completed\",\"response\":{\"output_text\":[\"All\",\" done\"]}}"
        :> [JsonValue EXCEPT !.type = "response.completed",
                             !.outputText = [array |-> TRUE,
                                             items |-> <<"All", " done">>]]) @@
    ("{\"type\":\"error\",\"message\":\"boom\"}"
        :> [JsonValue EXCEPT !.type = "error", !.message = "boom"]) @@
    ("{\"type\":\"error\",\"message\":\"\"}"
        :> [JsonValue EXCEPT !.type = "error", !.message = ""]) @@
    ("{\"content\":[\"a\",{\"text\":\"b\"},{}]}"
        :> [JsonValue EXCEPT !.content = [array |-> TRUE,
                                          items |-> <<"a", "b", "">>]])

\* JSON.parse: surrounding white space is allowed; any other text throws.
JsonParse(text) ==
    IF Trim(text) \in DOMAIN JsonTable
    THEN JsonTable[Trim(text)]
    ELSE [JsonValue EXCEPT !.valid = FALSE]

\* The event lines a Codex run prints, and a line that is no JSON.
EventLines ==
    {s \in DOMAIN JsonTable :
        JsonTable[s].type # Unset \/ JsonTable[s].content.array}
    \cup {"thinking"}

\* What a process writes to a pipe.
Outputs ==
    {"", "Rate limit exceeded, try again later (429)", "file not found",
     "Error: 401 Unauthorized", "warn\r\n  Quota exceeded for metric \n",
     " plain answer\n"}

StdoutTexts ==
    Outputs \cup (DOMAIN JsonTable \ EventLines) \cup
    {Join(l, "\n") : l \in UNION {[1..n -> EventLines] : n \in 1..MaxEvents}}

\* The results run...CliCommand resolves with: the process closed (success
\* is code === 0), or it could not be launched.
ExecResults ==
    [success : BOOLEAN, stdout : StdoutTexts, stderr : Outputs, error : {Unset}]
    \cup {[success |-> FALSE, stdout |-> "", stderr |-> "",
           error |-> "spawn ENOENT"]}

\* body.stream of the request, with its type.
StreamFlags == {Unset, "boolean true", "boolean false", "string true"}

ErrorResponse(status, message, type, code) ==
    [status |-> status, contentType |-> "application/json",
     error |-> [message |-> message, type |-> type, code |-> code],
     content |-> Unset, chunks |-> <<>>, streamClosed |-> FALSE,
     usage |-> <<>>]

\* createJsonResponse: gemini lines 237-278, codex lines 265-292.
CreateJsonResponse(text, usage) ==
    [status |-> 200, contentType |-> "application/json",
     error |-> [message |-> Unset, type |-> Unset, code |-> Unset],
     content |-> text, chunks |-> <<>>, streamClosed |-> FALSE,
     usage |-> usage]

\* Mutant: the content chunk carries the trimmed text.
CreateStreamingResponse_TrimmedDelta(text, usage) ==
    [status |-> 200, contentType |-> "text/event-stream",
     error |-> [message |-> Unset, type |-> Unset, code |-> Unset],
     content |-> Unset,
     chunks |-> <<[delta |-> "role", value |-> "assistant", finish |-> Unset,
                   usage |-> <<>>],
                  [delta |-> "content", value |-> Trim(text), finish |-> Unset,
                   usage |-> <<>>],
                  [delta |-> "none", value |-> Unset, finish |-> "stop",
                   usage |-> usage],
                  [delta |-> "[DONE]", value |-> Unset, finish |-> Unset,
                   usage |-> <<>>]>>,
     streamClosed |-> TRUE,
     usage |-> <<>>]

\* createStreamingResponse: gemini lines 149-235, codex lines 194-263.  The
\* chunks enqueued, in order, before controller.close(); the usage payload
\* goes into the chunk with the finish reason.
CreateStreamingResponse(text, usage) ==
    [status |-> 200, contentType |-> "text/event-stream",
     error |-> [message |-> Unset, type |-> Unset, code |-> Unset],
     content |-> Unset,
     chunks |-> <<[delta |-> "role", value |-> "assistant", finish |-> Unset,
                   usage |-> <<>>],
                  [delta |-> "content", value |-> text, finish |-> Unset,
                   usage |-> <<>>],
                  [delta |-> "none", value |-> Unset, finish |-> "stop",
                   usage |-> usage],
                  [delta |-> "[DONE]", value |-> Unset, finish |-> Unset,
                   usage |-> <<>>]>>,
     streamClosed |-> TRUE,
     usage |-> <<>>]

\* The usage payload of the gemini responses, lines 158-165 and 245-252.
UsagePayload(tokens) ==
    IF tokens # <<>> /\ \E i \in 1..Len(tokens) : tokens[i] # 0
    THEN tokens ELSE <<>>

\* lines.find(line => line.toLowerCase().includes(marker)), undefined if none.
FindLine(lines, marker) ==
    LET hits == {i \in 1..Len(lines) : IncludesLower(lines[i], marker)}
    IN IF hits = {} THEN Unset
       ELSE lines[CHOOSE i \in hits : \A j \in hits : i <= j]

\* detectQuotaMessage of gemini_cli_provider.ts, lines 361-379.
GeminiDetectQuotaMessage(rawMessage) ==
    IF ~Truthy(rawMessage) THEN Unset
    ELSE IF \/ IncludesLower(rawMessage, "quota exceeded")
            \/ IncludesLower(rawMessage, "rate_limit_exceeded")
            \/ IncludesLower(rawMessage, "resource_exhausted")
         THEN Trim(Nullish(FindLine(SplitLines(rawMessage), "quota exceeded"),
                   Nullish(FindLine(SplitLines(rawMessage), "rate_limit_exceeded"),
                           rawMessage)))
         ELSE Unset

\* detectQuotaMessage of codex_cli_provider.ts, lines 119-135.
CodexDetectQuotaMessage(rawMessage) ==
    IF ~Truthy(rawMessage) THEN Unset
    ELSE IF \/ IncludesLower(rawMessage, "rate limit")
            \/ IncludesLower(rawMessage, "quota")
            \/ IncludesLower(rawMessage, "429")
         THEN LET lines == SplitLines(rawMessage)
                  full == {i \in 1..Len(lines) : Len(Trim(lines[i])) > 0}
              IN IF full = {} THEN "OpenAI quota exceeded."
                 ELSE Trim(lines[CHOOSE i \in full : \A j \in full : i <= j])
         ELSE Unset

\* tryParseError, gemini lines 348-359: the message, or null.
TryParseError(output) ==
    IF ~Truthy(output) THEN Unset
    ELSE IF JsonParse(output).valid /\ Truthy(JsonParse(output).error)
    THEN JsonParse(output).error
    ELSE Unset

\* createCliFetch, lines 292-338: the response to a failed run.
GeminiFailure(e) ==
    LET message ==
            Nullish(TryParseError(e.stdout),
            Nullish(TryParseError(e.stderr),
                    OrElse(Trim(e.stderr),
                    OrElse(Trim(e.stdout),
                    OrElse(e.error, "Gemini CLI failed")))))
        combinedOutput == Join(FilterTruthy(<<e.stderr, e.stdout>>), "\n")
        quotaMessage ==
            Nullish(GeminiDetectQuotaMessage(message),
                    GeminiDetectQuotaMessage(combinedOutput))
    IN IF Truthy(quotaMessage)
       THEN ErrorResponse(429, quotaMessage, "rate_limit_exceeded",
                          "quota_exceeded")
       ELSE ErrorResponse(500, message, "gemini_cli_error", Unset)

\* createCodexCliFetch, lines 307-351: the response to a failed run.
CodexFailure(e) ==
    LET quotaMessage ==
            Nullish(CodexDetectQuotaMessage(e.stderr),
                    CodexDetectQuotaMessage(e.stdout))
        unauthorized == Includes(e.stderr, "401") \/ Includes(e.stdout, "401")
        message ==
            OrElse(Trim(e.stderr),
            OrElse(Trim(e.stdout),
            OrElse(e.error, "Codex CLI failed")))
    IN IF Truthy(quotaMessage)
       THEN ErrorResponse(429, quotaMessage, "rate_limit_exceeded",
                          "quota_exceeded")
       ELSE IF unauthorized
       THEN ErrorResponse(401,  \* the backquotes of the source are left out
                "Codex CLI returned 401 Unauthorized. Run codex login in a terminal (with the same account) or configure an OpenAI API key in Settings to use Codex.",
                "codex_cli_error", "unauthorized")
       ELSE ErrorResponse(500, message, "codex_cli_error", Unset)

\* parseCliJson, gemini lines 117-147.
ParseCliJson(output) ==
    LET parsed == JsonParse(output) IN
    IF ~parsed.valid THEN [text |-> Trim(output), tokens |-> <<>>]
    ELSE [text |-> IF parsed.response # Unset THEN parsed.response
                   ELSE IF parsed.string # Unset THEN parsed.string
                   ELSE "",
          tokens |-> parsed.tokens]

\* parseCodexEvents, codex lines 146-186: the loop over the lines, from the
\* aggregated text and error message so far.
RECURSIVE CodexEvents(_, _, _)
CodexEvents(lines, aggregatedText, errorMessage) ==
    IF lines = <<>>
    THEN [text |-> aggregatedText, errorMessage |-> errorMessage]
    ELSE LET event == JsonParse(Head(lines))
             contentText == Join(FilterTruthy(event.content.items), "\n")
         IN IF ~event.valid
            THEN CodexEvents(Tail(lines), aggregatedText, errorMessage)
            ELSE IF event.type = "error" /\ event.message # Unset
            THEN CodexEvents(Tail(lines), aggregatedText, event.message)
            ELSE IF event.type = "response.output_text.delta"
                    /\ event.delta # Unset
            THEN CodexEvents(Tail(lines), aggregatedText \o event.delta,
                             errorMessage)
            ELSE IF event.type = "response.completed" /\ event.outputText.array
            THEN CodexEvents(Tail(lines), Join(event.outputText.items, ""),
                             errorMessage)
            ELSE IF event.content.array /\ Truthy(contentText)
            THEN CodexEvents(Tail(lines), contentText, errorMessage)
            ELSE CodexEvents(Tail(lines), aggregatedText, errorMessage)

\* parseCodexEvents, codex lines 137-192.
RECURSIVE TrimAll(_)
TrimAll(a) == IF a = <<>> THEN <<>> ELSE <<Trim(Head(a))>> \o TrimAll(Tail(a))

ParseCodexEvents(output) ==
    LET lines == FilterTruthy(TrimAll(SplitLines(output)))
        parsed == CodexEvents(lines, "", Unset)
    IN [text |-> OrElse(Trim(parsed.text), Join(lines, "\n")),
        errorMessage |-> parsed.errorMessage]

\* Mutant: any stream flag that says true selects the streaming form.
GeminiSuccess_LooseStreamFlag(e, stream) ==
    LET parsed == ParseCliJson(e.stdout) IN
    IF stream \in {"boolean true", "string true"}
    THEN CreateStreamingResponse(parsed.text, UsagePayload(parsed.tokens))
    ELSE CreateJsonResponse(parsed.text, UsagePayload(parsed.tokens))

\* gemini lines 340-344, codex lines 353-373: the response to a successful run.
GeminiSuccess(e, stream) ==
    LET parsed == ParseCliJson(e.stdout) IN
    IF stream = "boolean true"
    THEN CreateStreamingResponse(parsed.text, UsagePayload(parsed.tokens))
    ELSE CreateJsonResponse(parsed.text, UsagePayload(parsed.tokens))

CodexSuccess(e, stream) ==
    LET parsed == ParseCodexEvents(e.stdout) IN
    IF Truthy(parsed.errorMessage)
    THEN ErrorResponse(500, parsed.errorMessage, "codex_cli_error", Unset)
    ELSE IF stream = "boolean true"
    THEN CreateStreamingResponse(parsed.text, <<>>)
    ELSE CreateJsonResponse(parsed.text, <<>>)

\* The fetch function is called: the request is read and the tool is run.
CliFetch ==
    /\ bridge.pc = "start"
    /\ bridge' = [bridge EXCEPT !.pc = "running"]
    /\ UNCHANGED <<managerVars, resolution, locator, runner>>

\* The run resolves with execResult and the fetch function returns.
RunCliCommand(execResult) ==
    /\ bridge.pc = "running"
    /\ bridge' = [bridge EXCEPT
           !.pc = "done",
           !.execResult = execResult,
           !.response =
               IF bridge.cli = "gemini"
               THEN IF execResult.success
                    THEN GeminiSuccess(execResult, bridge.stream)
                    ELSE GeminiFailure(execResult)
               ELSE IF execResult.success
                    THEN CodexSuccess(execResult, bridge.stream)
                    ELSE CodexFailure(execResult)]
    /\ UNCHANGED <<managerVars, resolution, locator, runner>>

BridgeInit ==
    /\ ManagerInit
    /\ bridge \in [pc : {"start"}, cli : {"gemini", "codex"},
                   stream : StreamFlags,
                   execResult : {Unset}, response : {Unset}]
    /\ resolution = Idle
    /\ locator = Idle
    /\ runner = Idle

BridgeNext ==
    \/ CliFetch
    \/ \E execResult \in ExecResults : RunCliCommand(execResult)

BridgeSpec == BridgeInit /\ [][BridgeNext]_vars

\* The run of the tool has failed and the fetch function has answered.
RunFailed == bridge.pc = "done" /\ ~bridge.execResult.success

\* C17: for the gemini and the codex bridge, a failed run whose output
\* contains "Rate limit exceeded, try again later (429)" is answered with
\* status 429 and error code quota_exceeded, and a failed run whose output is
\* "file not found", with no quota or authorization indicator, with status
\* 500.
C17_QuotaTextYields429 ==
    RunFailed =>
        LET e == bridge.execResult
            quotaText == "Rate limit exceeded, try again later (429)"
        IN /\ (Includes(e.stdout, quotaText) \/ Includes(e.stderr, quotaText))
              => /\ bridge.response.status = 429
                 /\ bridge.response.error.code = "quota_exceeded"
           /\ ({e.stdout, e.stderr} \in {{"file not found"}, {"file not found", ""}})
              => bridge.response.status = 500

\* What a client reads from a streamed response: the content deltas of its
\* chunks, concatenated in order.
RECURSIVE ContentDeltas(_)
ContentDeltas(chunks) ==
    IF chunks = <<>> THEN ""
    ELSE (IF Head(chunks).delta = "content" THEN Head(chunks).value ELSE "")
         \o ContentDeltas(Tail(chunks))

\* The response of a bridge to a successful run, by the request's stream flag.
Success(cli, e, stream) ==
    IF cli = "gemini" THEN GeminiSuccess(e, stream) ELSE CodexSuccess(e, stream)

\* C21: for each bridge and each successful run that is answered with status
\* 200, the response given is the streaming or the non-streaming response to
\* the run's output, and the message content of the non-streaming response
\* equals the concatenation, in order, of the content deltas of the chunks of
\* the streaming response to the same output.
C21_StreamedContentEqualsJsonContent ==
    (bridge.pc = "done" /\ bridge.execResult.success) =>
        LET e == bridge.execResult
            streaming == Success(bridge.cli, e, "boolean true")
            json == Success(bridge.cli, e, "boolean false")
        IN /\ bridge.response =
                  IF bridge.stream = "boolean true" THEN streaming ELSE json
           /\ streaming.status = json.status
           /\ json.status = 200 =>
                  /\ json.content # Unset
                  /\ streaming.chunks # <<>>
                  /\ json.content = ContentDeltas(streaming.chunks)

\* A streamed answer to a successful run whose text has white space at its
\* ends has been given.
C21_Witness ==
    /\ bridge.pc = "done"
    /\ bridge.execResult.success
    /\ bridge.stream = "boolean true"
    /\ bridge.response.status = 200
    /\ ContentDeltas(bridge.response.chunks) = " Hi "

\* C33
\* For the gemini and the codex bridge: a failed run whose output has no
\* quota or rate-limit indicator (a text the detectQuotaMessage of the
\* bridge recognises) but contains "401" is answered with status
\* 401, error code unauthorized and the message that tells the user what to
\* do; a failed run whose output has a quota indicator and "401" is answered
\* with status 429.
C33_UnauthorizedTextYields401 ==
    RunFailed =>
        LET e == bridge.execResult
            QuotaIndicator(s) ==
                IF bridge.cli = "gemini"
                THEN Truthy(GeminiDetectQuotaMessage(s))
                ELSE Truthy(CodexDetectQuotaMessage(s))
            quota == QuotaIndicator(e.stdout) \/ QuotaIndicator(e.stderr)
            unauthorized == Includes(e.stdout, "401") \/ Includes(e.stderr, "401")
        IN /\ (unauthorized /\ ~quota)
              => /\ bridge.response.status = 401
                 /\ bridge.response.error.code = "unauthorized"
                 /\ Includes(bridge.response.error.message, "401 Unauthorized")
                 /\ \/ IncludesLower(bridge.response.error.message, "login")
                    \/ IncludesLower(bridge.response.error.message, "api key")
           /\ (unauthorized /\ quota) => bridge.response.status = 429

\* The codex bridge has answered a successful run.
CodexRunSucceeded ==
    bridge.pc = "done" /\ bridge.cli = "codex" /\ bridge.execResult.success

\* The events of the lines of a run's output, in order (invalid lines left
\* out).
OutputEvents(output) ==
    LET lines == FilterTruthy(TrimAll(SplitLines(output)))
    IN SelectSeq([i \in 1..Len(lines) |-> JsonParse(lines[i])],
                 LAMBDA event : event.valid)

\* C34
\* When a successful run of the codex tool prints an error event among its
\* event lines, the bridge answers with status 500 and the message of an
\* error event, whatever other events come before or after it; it never
\* answers such a run with status 200.
C34_ErrorEventYieldsFailure ==
    CodexRunSucceeded =>
        LET events == OutputEvents(bridge.execResult.stdout)
            errors == {i \in 1..Len(events) : events[i].type = "error"}
        IN errors # {} =>
               /\ bridge.response.status = 500
               /\ \E i \in errors :
                      bridge.response.error.message = events[i].message

\* C35
\* For a successful run of the codex tool that prints only delta and
\* completion events and is answered with status 200, the text of the
\* response is, up to surrounding white space, the concatenation of the
\* deltas in their order when there is no completion event, and the full
\* text of the completion event when there is one, wherever it stands among
\* the deltas.
C35_CompletionTextWinsAnywhere ==
    (CodexRunSucceeded /\ bridge.response.status = 200) =>
        LET events == OutputEvents(bridge.execResult.stdout)
            indices == 1..Len(events)
            completions ==
                {i \in indices : events[i].type = "response.completed"}
            RECURSIVE Deltas(_)
            Deltas(i) ==
                IF i > Len(events) THEN ""
                ELSE (IF events[i].type = "response.output_text.delta"
                      THEN events[i].delta ELSE "") \o Deltas(i + 1)
            expected ==
                IF completions = {}
                THEN Deltas(1)
                ELSE Join(events[CHOOSE i \in completions :
                                     \A j \in completions : j <= i]
                              .outputText.items, "")
            text == IF bridge.stream = "boolean true"
                    THEN ContentDeltas(bridge.response.chunks)
                    ELSE bridge.response.content
        IN (/\ events # <<>>
            /\ \A i \in indices :
                   events[i].type \in {"response.output_text.delta",
                                       "response.completed"}
            /\ Trim(expected) # "")
           => text = Trim(expected)

\* C36
\* A successful run that is answered with status 200 is answered in the
\* streaming form exactly when the stream flag of the request is the boolean
\* true, and in the JSON form otherwise.  The streaming form enqueues four
\* chunks and nothing else, in this order: the role "assistant", one content
\* chunk with the whole text, a chunk with finish reason stop that carries
\* the usage when it is known and no other chunk does, and [DONE]; then the
\* stream is closed.
C36_StreamChunkOrder ==
    (bridge.pc = "done" /\ bridge.execResult.success
        /\ bridge.response.status = 200) =>
        LET r == bridge.response
            text == IF bridge.cli = "gemini"
                    THEN ParseCliJson(bridge.execResult.stdout).text
                    ELSE ParseCodexEvents(bridge.execResult.stdout).text
            tokens == IF bridge.cli = "gemini"
                      THEN ParseCliJson(bridge.execResult.stdout).tokens
                      ELSE <<>>
            usageKnown == \E i \in 1..Len(tokens) : tokens[i] # 0
        IN IF bridge.stream = "boolean true"
           THEN /\ r.contentType = "text/event-stream"
                /\ r.content = Unset
                /\ Len(r.chunks) = 4
                /\ r.chunks[1].delta = "role" /\ r.chunks[1].value = "assistant"
                /\ r.chunks[2].delta = "content" /\ r.chunks[2].value = text
                /\ r.chunks[3].delta = "none" /\ r.chunks[3].finish = "stop"
                /\ r.chunks[3].usage = IF usageKnown THEN tokens ELSE <<>>
                /\ r.chunks[4].delta = "[DONE]"
                /\ \A i \in {1, 2, 4} :
                       r.chunks[i].finish = Unset /\ r.chunks[i].usage = <<>>
                /\ r.streamClosed
           ELSE /\ r.contentType = "application/json"
                /\ r.chunks = <<>>
                /\ ~r.streamClosed
                /\ r.content = text

\* A gemini run with known token counts was answered as a stream; and the
\* flag "true" as a string would have got the JSON form.
C36_Witness ==
    /\ bridge.pc = "done"
    /\ bridge.cli = "gemini"
    /\ bridge.execResult.success
    /\ bridge.stream = "boolean true"
    /\ Len(bridge.response.chunks) = 4
    /\ bridge.response.chunks[3].usage = <<1, 2, 3>>
    /\ bridge.response.streamClosed
    /\ GeminiSuccess(bridge.execResult, "string true").chunks = <<>>

----------------------------------------------------------------------------
(***************************************************************************)
(* The executable locator: detectGeminiCli (gemini_cli_detector.ts) and    *)
(* detectCodexCli (the detector module in context_paths_utils.ts).         *)
(*                                                                         *)
(*   the call, up to the first await       DetectCli                       *)
(*   the candidate loop of resolveCliPath  ResolveCliPath                  *)
(*   readVersion and the return            ReadVersion                     *)
(*   an unexpected throw inside the try    InternalFault                   *)
(*                                                                         *)
(* The machine (files, PATH lookups) does not change during a detection,   *)
(* so the awaits of the candidate loop are taken in one step.              *)
(***************************************************************************)

\* DEFAULT_PATH_CANDIDATES: gemini lines 26-33, codex lines 75-82.
DefaultPathCandidates ==
    [gemini |-> <<"gemini", "/usr/local/bin/gemini", "/opt/homebrew/bin/gemini",
                  "/usr/bin/gemini",
                  "C:\\Program Files\\Google\\Gemini CLI\\gemini.exe",
                  "C:\\Program Files (x86)\\Google\\Gemini CLI\\gemini.exe">>,
     codex |-> <<"codex", "openai", "/usr/local/bin/codex", "/usr/bin/codex",
                 "C:\\Program Files\\OpenAI\\codex.exe",
                 "C:\\Program Files\\OpenAI\\OpenAI.exe">>]

\* What runCommand resolves with for `which <name>` and for `<path> --version`.
WhichResults ==
    {[ok |-> FALSE, stdout |-> "", stderr |-> "not found"],
     [ok |-> TRUE, stdout |-> "", stderr |-> ""],
     [ok |-> TRUE, stdout |-> "/home/user/.local/bin/tool\r\n/snap/bin/tool\n",
      stderr |-> ""]}
VersionResults ==
    {[ok |-> FALSE, stdout |-> "", stderr |-> "spawn EACCES"],
     [ok |-> TRUE, stdout |-> "", stderr |-> ""],
     [ok |-> TRUE, stdout |-> "tool version 10.2.31-beta\n", stderr |-> ""],
     [ok |-> TRUE, stdout |-> " nightly build \n", stderr |-> ""]}

\* The files of the machine that may be executable.
ToolFiles(cli) ==
    {"/custom/bin/tool", "/env/bin/tool", "/home/user/.local/bin/tool",
     DefaultPathCandidates[cli][3]}

\* A detectGeminiCli / detectCodexCli call: its options and the machine.
Detections ==
    UNION {[pc : {"start"}, cli : {c},
            explicitPath : {Unset, "", "/custom/bin/tool"},
            envPath : {Unset, "/env/bin/tool"},
            autoDetect : {Unset, "true", "false"},
            envPATH : {Unset, "/usr/bin:/bin"},
            which : WhichResults,
            executables : SUBSET ToolFiles(c),
            path : {Unset},
            versionOk : {Unset},
            fault : {FALSE},
            result : {Unset}] : c \in {"gemini", "codex"}}

\* Mutant: the environment override is tried before the explicit path.
Candidates_EnvFirst(d) ==
    (IF Truthy(d.envPath) THEN <<d.envPath>> ELSE <<>>) \o
    (IF Truthy(d.explicitPath) THEN <<d.explicitPath>> ELSE <<>>) \o
    (IF d.autoDetect # "false"
     THEN <<IF Truthy(d.envPATH) THEN d.cli ELSE "">> \o
          DefaultPathCandidates[d.cli]
     ELSE <<>>)

\* resolveCliPath, the candidate list: gemini lines 79-93, codex lines 139-153.
Candidates(d) ==
    (IF Truthy(d.explicitPath) THEN <<d.explicitPath>> ELSE <<>>) \o
    (IF Truthy(d.envPath) THEN <<d.envPath>> ELSE <<>>) \o
    (IF d.autoDetect # "false"
     THEN <<IF Truthy(d.envPATH) THEN d.cli ELSE "">> \o
          DefaultPathCandidates[d.cli]
     ELSE <<>>)

\* findInPath: gemini lines 119-129, codex lines 124-134; null is Unset.
\* (The machine answers every name the same.)
FindInPath(d, binary) ==
    IF d.which.ok /\ Truthy(Trim(SplitLines(d.which.stdout)[1]))
    THEN Trim(SplitLines(d.which.stdout)[1])
    ELSE Unset

\* The command a candidate stands for: gemini lines 98-101, codex 158-161.
CommandOf(d, candidate) ==
    IF Includes(candidate, "/") \/ Includes(candidate, "\\")
    THEN candidate
    ELSE FindInPath(d, candidate)

\* One pass of the loop accepts the candidate: gemini lines 96-113, codex
\* lines 156-171 (ensureExecutable is access(path, X_OK)).
Accepted(d, candidate) ==
    /\ Truthy(candidate)
    /\ Truthy(CommandOf(d, candidate))
    /\ CommandOf(d, candidate) \in d.executables

\* The end of the leading run of digits of s from position i (i - 1 if none).
DigitsEnd(s, i) ==
    LET run == {j \in (i - 1)..Len(s) :
                   \A k \in i..j : Includes("0123456789", SubSeq(s, k, k))}
    IN CHOOSE j \in run : \A k \in run : k <= j

\* readVersion: gemini lines 131-149, codex lines 177-195; the first match
\* of /(\d+\.\d+\.\d+)/, else the trimmed output, else undefined.
VersionOf(r) ==
    IF ~r.ok THEN Unset
    ELSE LET s == r.stdout
             dot(i) == i <= Len(s) /\ SubSeq(s, i, i) = "."
             e1(i) == DigitsEnd(s, i)
             e2(i) == DigitsEnd(s, e1(i) + 2)
             e3(i) == DigitsEnd(s, e2(i) + 2)
             starts == {i \in 1..Len(s) :
                           /\ e1(i) >= i /\ dot(e1(i) + 1)
                           /\ e2(i) >= e1(i) + 2 /\ dot(e2(i) + 1)
                           /\ e3(i) >= e2(i) + 2}
         IN IF starts # {}
            THEN LET i == CHOOSE i \in starts : \A j \in starts : i <= j
                 IN SubSeq(s, i, e3(i))
            ELSE IF Truthy(Trim(s)) THEN Trim(s) ELSE Unset

CliInfo(path, version, isAvailable, errorMessage) ==
    [path |-> path, version |-> version, isAvailable |-> isAvailable,
     errorMessage |-> errorMessage]

NotFoundMessage ==
    [gemini |-> "Gemini CLI executable not found",
     codex |-> "Codex CLI executable not found"]

\* detectGeminiCli, lines 154-159 (codex 197-202): the call enters
\* resolveCliPath.
DetectCli ==
    /\ locator.pc = "start"
    /\ locator' = [locator EXCEPT !.pc = "resolving"]
    /\ UNCHANGED <<managerVars, resolution, bridge, runner>>

\* resolveCliPath, lines 95-116 (codex 155-174), and its caller's lines
\* 161-168 (codex 204-210): the first accepted candidate, or unavailable.
ResolveCliPath ==
    /\ locator.pc = "resolving"
    /\ LET list == Candidates(locator)
           hits == {i \in 1..Len(list) : Accepted(locator, list[i])}
       IN locator' =
              IF hits = {}
              THEN [locator EXCEPT
                       !.pc = "done",
                       !.result = CliInfo(Unset, Unset, FALSE,
                                          NotFoundMessage[locator.cli])]
              ELSE [locator EXCEPT
                       !.pc = "version",
                       !.path = CommandOf(locator,
                                    list[CHOOSE i \in hits : \A j \in hits : i <= j])]
    /\ UNCHANGED <<managerVars, resolution, bridge, runner>>

\* detectGeminiCli, lines 170-184 (codex 212-224): the version query
\* resolves with r, the directory check changes nothing, the call returns.
ReadVersion(r) ==
    /\ locator.pc = "version"
    /\ locator' = [locator EXCEPT
           !.pc = "done",
           !.versionOk = IF r.ok THEN "true" ELSE "false",
           !.result = CliInfo(locator.path, VersionOf(r), TRUE, Unset)]
    /\ UNCHANGED <<managerVars, resolution, bridge, runner>>

\* Mutant: the detection without its try / catch.
InternalFault_Uncaught(message) ==
    /\ locator.pc \in {"resolving", "version"}
    /\ locator' = [locator EXCEPT !.pc = "rejected", !.fault = TRUE]
    /\ UNCHANGED <<managerVars, resolution, bridge, runner>>

\* detectGeminiCli, lines 185-195 (codex 225-233): something inside the try
\* block throws an Error; the catch block returns.
InternalFault(message) ==
    /\ locator.pc \in {"resolving", "version"}
    /\ locator' = [locator EXCEPT
           !.pc = "done",
           !.fault = TRUE,
           !.result = CliInfo(Unset, Unset, FALSE, message)]
    /\ UNCHANGED <<managerVars, resolution, bridge, runner>>

LocatorInit ==
    /\ ManagerInit
    /\ locator \in Detections
    /\ resolution = Idle
    /\ bridge = Idle
    /\ runner = Idle

LocatorNext ==
    \/ DetectCli
    \/ ResolveCliPath
    \/ \E r \in VersionResults : ReadVersion(r)
    \/ InternalFault("EPERM: operation not permitted")

LocatorSpec == LocatorInit /\ [][LocatorNext]_vars

\* C18: the locator tries the explicit path, then the environment override,
\* then the auto-detect candidates, and returns the first candidate that
\* resolves to a path and is executable: the explicit path when it
\* qualifies, the environment override when no explicit path is given, else
\* the first qualifying auto-detect candidate; a candidate that is not
\* executable is passed over for the next.
C18_FirstQualifyingCandidateWins ==
    (locator.pc \in {"version", "done"} /\ ~locator.fault) =>
        LET d == locator
            qualifies(c) == /\ Truthy(c)
                            /\ Truthy(CommandOf(d, c))
                            /\ CommandOf(d, c) \in d.executables
            auto == IF d.autoDetect # "false"
                    THEN <<IF Truthy(d.envPATH) THEN d.cli ELSE "">> \o
                         DefaultPathCandidates[d.cli]
                    ELSE <<>>
            order == <<d.explicitPath, d.envPath>> \o auto
            good == {i \in 1..Len(order) : qualifies(order[i])}
        IN /\ qualifies(d.explicitPath) => d.path = d.explicitPath
           /\ (~Truthy(d.explicitPath) /\ qualifies(d.envPath))
              => d.path = d.envPath
           /\ good = {} => d.path = Unset
           /\ good # {} =>
                  d.path = CommandOf(d, order[CHOOSE i \in good :
                                                  \A j \in good : i <= j])

\* The explicit path is not executable, the environment override is, and
\* the detection has returned the override.
C18_Witness ==
    /\ locator.pc = "done"
    /\ Truthy(locator.explicitPath)
    /\ locator.explicitPath \notin locator.executables
    /\ locator.result.isAvailable
    /\ locator.result.path = locator.envPath

\* C19: detectGeminiCli / detectCodexCli never throws or rejects.  When no
\* candidate qualifies, and when a step inside it throws, it returns a
\* result with isAvailable false, path null and an error message; when the
\* version query fails the resolved executable is still returned as
\* available.
C19_LocatorNeverThrows ==
    /\ locator.pc \in {"idle", "start", "resolving", "version", "done"}
    /\ locator.fault => locator.pc = "done"
    /\ locator.pc = "done" =>
           /\ (locator.fault \/ locator.path = Unset)
              => /\ ~locator.result.isAvailable
                 /\ locator.result.path = Unset
                 /\ Truthy(locator.result.errorMessage)
           /\ (~locator.fault /\ locator.path # Unset)
              => /\ locator.result.isAvailable
                 /\ locator.result.path = locator.path
                 /\ locator.path \in locator.executables

\* A step of the detection threw after the executable had been resolved,
\* and the call has returned the unavailable result.
C19_Witness ==
    /\ locator.pc = "done"
    /\ locator.fault
    /\ locator.path # Unset
    /\ ~locator.result.isAvailable

----------------------------------------------------------------------------
(***************************************************************************)
(* The subprocess runners: runGeminiCliCommand (gemini_cli_provider.ts),   *)
(* runCodexCliCommand (codex_cli_provider.ts) and runCommand of the        *)
(* detectors.  Each returns a promise that the handlers of the child's     *)
(* "error" and "close" events resolve; a promise keeps its first           *)
(* settlement.  Every action is one event handler.                         *)
(***************************************************************************)

\* Number of data chunks a pipe delivers.
MaxChunks == 2

Runners == {"gemini", "codex", "detector"}

\* The code of a "close" event: a number, or null when a signal (the spawn
\* timeout) killed the process.
ExitCodes == {"0", "1", "null"}

\* Promise resolve: only the first settlement counts.
Resolve(r, value) ==
    IF r.promise = "pending"
    THEN [r EXCEPT !.promise = "resolved", !.value = value]
    ELSE r

\* new Promise(...): spawn and the registration of the handlers; gemini
\* lines 52-80, codex 47-80, detector 49-73.
Spawn ==
    /\ runner.pc = "start"
    /\ runner' = [runner EXCEPT !.pc = "running"]
    /\ UNCHANGED <<managerVars, resolution, bridge, locator>>

\* child.stdout.on("data"), child.stderr.on("data"): gemini lines 65-71,
\* codex 62-68, detector 58-64.  The pipes end before "close".
OnData(stream) ==
    /\ runner.pc = "running"
    /\ ~runner.closeSeen
    /\ Len(runner[stream]) < MaxChunks
    /\ runner' = [runner EXCEPT ![stream] = @ \o "x"]
    /\ UNCHANGED <<managerVars, resolution, bridge, locator>>

\* child.on("error"): gemini lines 73-75, codex 70-72, detector 66-68.
OnError(message) ==
    /\ runner.pc = "running"
    /\ ~runner.errorSeen
    /\ runner' =
           Resolve([runner EXCEPT
                        !.errorSeen = TRUE,
                        !.events = Append(@, [event |-> "error",
                                              detail |-> message,
                                              stdout |-> runner.stdout,
                                              stderr |-> runner.stderr])],
                   IF runner.cli = "detector"
                   THEN [success |-> FALSE, stdout |-> "", stderr |-> message,
                         error |-> Unset]
                   ELSE [success |-> FALSE, stdout |-> runner.stdout,
                         stderr |-> runner.stderr, error |-> message])
    /\ UNCHANGED <<managerVars, resolution, bridge, locator>>

\* Mutant: the close handler overwrites the result of the error handler.
OnClose_LastWins(code) ==
    /\ runner.pc = "running"
    /\ ~runner.closeSeen
    /\ runner' =
           [runner EXCEPT
                !.closeSeen = TRUE,
                !.events = Append(@, [event |-> "close", detail |-> code,
                                      stdout |-> runner.stdout,
                                      stderr |-> runner.stderr]),
                !.promise = "resolved",
                !.value = [success |-> code = "0", stdout |-> runner.stdout,
                           stderr |-> runner.stderr, error |-> Unset]]
    /\ UNCHANGED <<managerVars, resolution, bridge, locator>>

\* child.on("close"): gemini lines 77-79, codex 74-76, detector 70-72.
OnClose(code) ==
    /\ runner.pc = "running"
    /\ ~runner.closeSeen
    /\ runner' =
           Resolve([runner EXCEPT
                        !.closeSeen = TRUE,
                        !.events = Append(@, [event |-> "close",
                                              detail |-> code,
                                              stdout |-> runner.stdout,
                                              stderr |-> runner.stderr])],
                   [success |-> code = "0", stdout |-> runner.stdout,
                    stderr |-> runner.stderr, error |-> Unset])
    /\ UNCHANGED <<managerVars, resolution, bridge, locator>>

RunnerInit ==
    /\ ManagerInit
    /\ runner \in [pc : {"start"}, cli : Runners,
                   stdout : {""}, stderr : {""},
                   errorSeen : {FALSE}, closeSeen : {FALSE},
                   events : {<<>>},
                   promise : {"pending"},
                   value : {[success |-> FALSE, stdout |-> "", stderr |-> "",
                             error |-> Unset]}]
    /\ resolution = Idle
    /\ bridge = Idle
    /\ locator = Idle

RunnerNext ==
    \/ Spawn
    \/ \E stream \in {"stdout", "stderr"} : OnData(stream)
    \/ OnError("spawn ENOENT")
    \/ \E code \in ExitCodes : OnClose(code)

RunnerSpec == RunnerInit /\ [][RunnerNext]_vars

====
